---- MODULE Spec2Model ----
(***************************************************************************)
(* Webhook signature verification, the webhook endpoint, the status       *)
(* poller, the merchant's handling of delivered events, the capability     *)
(* matrix, the creation of payments and payouts, the HTTP request and the  *)
(* gateway event stream of the SahelPay SDKs (TypeScript merchant SDK,     *)
(* TypeScript full SDK, PHP SDK, Next.js merchant template, integration    *)
(* standard).                                                              *)
(*                                                                         *)
(* Strings are sequences of one-character strings, so that split(),        *)
(* length, parseInt and the comparison of buffers are computed and not     *)
(* assumed.  null / undefined header values are the one-element sequence   *)
(* <<"null">>, which no string of characters equals.                       *)
(***************************************************************************)
EXTENDS Integers, Sequences, FiniteSets, TLC

VARIABLES
    now,        \* the clock, in seconds (Date.now()/1000, time())
    call,       \* the last verification call and its outcome
    env,        \* process.env.SAHELPAY_WEBHOOK_SECRET of the webhook route
    request,    \* the HTTP request the webhook route is answering
    response,   \* its HTTP response
    processed,  \* the event the route's switch handled for that request
    time,       \* the clock of the poller, in milliseconds (Date.now())
    poll,       \* one call of poll(): its closure, its timer and its promise
    shop,       \* the merchant's records, its last webhook delivery, its return page
    sdk,        \* the last capability lookup or creation call and its outcome
    http,       \* one call of request(): its abort timer, its fetch and its outcome
    polls,      \* the closures of the polls running at once on one client
    stream      \* one GatewayEventSource: its fields, its timers and its sources

hookVars == <<env, request, response, processed>>

pollVars == <<time, poll>>

streamVars == <<http, polls, stream>>

vars ==
    <<now, call, env, request, response, processed, time, poll, shop, sdk, http, polls,
      stream>>

(***************************************************************************)
(* Bounds of the model.                                                    *)
(***************************************************************************)
\* the clock starts here (seconds); any value above DEFAULT_TOLERANCE + MaxSkew
Epoch == 1000
\* instants and timestamps lie 0..MaxSkew seconds around Epoch and around
\* Epoch + DEFAULT_TOLERANCE
MaxSkew == 1

(***************************************************************************)
(* Program constants.                                                      *)
(***************************************************************************)
DEFAULT_TOLERANCE == 300
\* length of a hex SHA-256 digest, and the length the legacy branch tests
LEGACY_LENGTH == 64

(***************************************************************************)
(* Characters and strings.                                                 *)
(***************************************************************************)
HexDigits == <<"0","1","2","3","4","5","6","7","8","9","a","b","c","d","e","f">>

Digits == {"0","1","2","3","4","5","6","7","8","9"}

\* every character the model's strings are made of; a character's code is
\* its position (1-based, so no character has code 0)
Alphabet == HexDigits \o <<"t","v","=",",",".","-","_","{","}","S","F","o","x","n","u","l","g","i">>

CharCode(c) == CHOOSE i \in 1..Len(Alphabet) : Alphabet[i] = c

null == <<"null">>

RECURSIVE IndexOf(_, _, _)
\* first position >= from of character c in s, 0 when there is none
IndexOf(s, c, from) ==
    IF from > Len(s) THEN 0
    ELSE IF s[from] = c THEN from
    ELSE IndexOf(s, c, from + 1)

RECURSIVE Split(_, _)
\* String.prototype.split(sep) / explode(sep, s): "" gives one empty piece
Split(s, sep) ==
    LET i == IndexOf(s, sep, 1)
    IN  IF i = 0 THEN <<s>>
        ELSE <<SubSeq(s, 1, i - 1)>> \o Split(SubSeq(s, i + 1, Len(s)), sep)

\* explode(sep, s, 2): at most two pieces, the second holds the rest
Explode2(s, sep) ==
    LET i == IndexOf(s, sep, 1)
    IN  IF i = 0 THEN <<s>>
        ELSE <<SubSeq(s, 1, i - 1), SubSeq(s, i + 1, Len(s))>>

\* the character c, n times
Repeat(c, n) == [i \in 1..n |-> c]

RECURSIVE IntToStr(_)
\* decimal rendering of a natural number
IntToStr(n) ==
    IF n < 10 THEN <<HexDigits[n + 1]>>
    ELSE IntToStr(n \div 10) \o <<HexDigits[(n % 10) + 1]>>

DigitValue(c) == CharCode(c) - 1

RECURSIVE LeadingDigits(_, _, _)
\* value of the longest prefix of decimal digits of s from position i on,
\* acc so far; -1 when there is no digit at all
LeadingDigits(s, i, acc) ==
    IF i > Len(s) \/ s[i] \notin Digits THEN acc
    ELSE LeadingDigits(s, i + 1, (IF acc < 0 THEN 0 ELSE acc) * 10 + DigitValue(s[i]))

\* parseInt(s, 10): optional sign, then the leading digits; NaN without digits
parseInt(s) ==
    LET neg  == Len(s) > 0 /\ s[1] = "-"
        v    == LeadingDigits(s, IF neg THEN 2 ELSE 1, -1)
    IN  IF v < 0 THEN [isNaN |-> TRUE, value |-> 0]
        ELSE [isNaN |-> FALSE, value |-> IF neg THEN 0 - v ELSE v]

\* intval($s): as parseInt, but 0 where parseInt gives NaN
intval(s) == IF parseInt(s).isNaN THEN 0 ELSE parseInt(s).value

Abs(x) == IF x < 0 THEN 0 - x ELSE x

\* JavaScript truthiness of a string-or-undefined value
JsTruthy(s) == s # null /\ s # <<>>

\* PHP truthiness of a string-or-null value: "" and "0" are falsy
PhpTruthy(s) == s # null /\ s # <<>> /\ s # <<"0">>

(***************************************************************************)
(* HMAC-SHA256, hex digest.  A stand-in that keeps what the verifiers rely *)
(* on: the digest is LEGACY_LENGTH lowercase hex characters, it is a       *)
(* function of (secret, message), and distinct (secret, message) pairs of  *)
(* the model have distinct digests (the key's code and every character's   *)
(* code are written as two hex digits, then zero-padded).                  *)
(***************************************************************************)
NoSecret == ""

SecretA == "whsec_test123"

SecretB == "whsec_testsecret123"

KeyCode(secret) ==
    CASE secret = SecretA -> 161
      [] secret = SecretB -> 178
      [] OTHER -> 255

Hex2(n) == <<HexDigits[(n \div 16) + 1], HexDigits[(n % 16) + 1]>>

\* every character of s as the two hex digits of its code
HexEncode(s) == [i \in 1..(2 * Len(s)) |-> Hex2(CharCode(s[(i + 1) \div 2]))[2 - (i % 2)]]

hash_hmac(secret, message) ==
    LET d == Hex2(KeyCode(secret)) \o HexEncode(message)
    IN  d \o Repeat("0", LEGACY_LENGTH - Len(d))

(***************************************************************************)
(* JSON.                                                                   *)
(* A body is a short string: "{" event [order] "}" stands for              *)
(*   {"event": <event>, "data": {"id": .., "metadata": {"app_order_id": ..}}} *)
(* S = payment.success, F = payment.failed, o = an app_order_id;           *)
(* "null" is the JSON null; anything else is not JSON.                     *)
(***************************************************************************)
JsonUndefined == [kind |-> "undefined", event |-> "", orderId |-> ""]

JsonNull == [kind |-> "null", event |-> "", orderId |-> ""]

EventName(c) == IF c = "S" THEN "payment.success" ELSE "payment.failed"

\* JSON.parse: [ok |-> FALSE] stands for the SyntaxError it throws
JSON_parse(s) ==
    IF s = <<"n","u","l","l">> THEN [ok |-> TRUE, value |-> JsonNull]
    ELSE IF /\ Len(s) \in {3, 4}
            /\ s[1] = "{"
            /\ s[Len(s)] = "}"
            /\ s[2] \in {"S", "F"}
            /\ (Len(s) = 4 => s[3] = "o")
    THEN [ok |-> TRUE,
          value |-> [kind |-> "object", event |-> EventName(s[2]),
                     orderId |-> IF Len(s) = 4 THEN "order_1" ELSE ""]]
    ELSE [ok |-> FALSE, value |-> JsonUndefined]

\* json_decode($s, true): null for JSON null and for a syntax error
json_decode(s) == IF JSON_parse(s).ok THEN JSON_parse(s).value ELSE JsonNull

(***************************************************************************)
(* Results.  Every verifier's outcome is one record:                       *)
(*   valid   - the boolean it returned (FALSE when it threw)               *)
(*   threw   - the class of the exception it raised, "none" when it        *)
(*             returned                                                    *)
(*   error   - the error message of the result or of the exception,        *)
(*             "undefined" when there is none                              *)
(*   payload - the parsed event handed to the caller, JsonUndefined when   *)
(*             none is                                                     *)
(***************************************************************************)
Returned(valid, error, payload) ==
    [valid |-> valid, threw |-> "none", error |-> error, payload |-> payload]

Thrown(class, message) ==
    [valid |-> FALSE, threw |-> class, error |-> message, payload |-> JsonUndefined]

timingSafeEqual_lengthOnly(a, b) ==
    IF Len(a) # Len(b) THEN [threw |-> TRUE, equal |-> FALSE]
    ELSE [threw |-> FALSE, equal |-> TRUE]

\* crypto.timingSafeEqual(Buffer.from(a), Buffer.from(b)): a RangeError when
\* the lengths differ
timingSafeEqual(a, b) ==
    IF Len(a) # Len(b) THEN [threw |-> TRUE, equal |-> FALSE]
    ELSE [threw |-> FALSE, equal |-> a = b]

\* hash_equals($known, $user): FALSE when the lengths differ, never throws
hash_equals(known, user) == Len(known) = Len(user) /\ known = user

(***************************************************************************)
(* Parsing of the signature header.                                        *)
(***************************************************************************)
\* const [key, value] = part.split('='): the first two pieces, value
\* undefined when there is no '='
JsKeyValue(part) ==
    LET segs == Split(part, "=")
    IN  [key |-> segs[1], value |-> IF Len(segs) >= 2 THEN segs[2] ELSE null]

\* parts[key] after the forEach: the value of the last part with that key and
\* a truthy key and value, undefined when there is none
JsParts(signatureHeader, key) ==
    LET pieces == Split(signatureHeader, ",")
        hits   == {i \in 1..Len(pieces) :
                     /\ JsKeyValue(pieces[i]).key = key
                     /\ JsTruthy(JsKeyValue(pieces[i]).key)
                     /\ JsTruthy(JsKeyValue(pieces[i]).value)}
    IN  IF hits = {} THEN null
        ELSE JsKeyValue(pieces[CHOOSE i \in hits : \A j \in hits : j <= i]).value

\* $parts[$key] ?? null after parseSignatureHeader: explode('=', $part, 2),
\* kept when there are two pieces (the value may be empty)
parseSignatureHeader(header, key) ==
    LET pieces == Split(header, ",")
        hits   == {i \in 1..Len(pieces) :
                     /\ Len(Explode2(pieces[i], "=")) = 2
                     /\ Explode2(pieces[i], "=")[1] = key}
    IN  IF hits = {} THEN null
        ELSE Explode2(pieces[CHOOSE i \in hits : \A j \in hits : j <= i], "=")[2]

KeyT == <<"t">>

KeyV1 == <<"v","1">>

(***************************************************************************)
(* The two tests the TypeScript verifiers share (the merchant SDK and the  *)
(* template's route spell them identically).                               *)
(***************************************************************************)
IsLegacyForm_never(timestamp, signature, signatureHeader) == FALSE

\* !timestamp && !signature && signatureHeader.length === 64
IsLegacyForm(timestamp, signature, signatureHeader) ==
    ~JsTruthy(timestamp) /\ ~JsTruthy(signature) /\ Len(signatureHeader) = LEGACY_LENGTH

IsStale_atBoundary(clock, timestampNum, toleranceSeconds) ==
    ~timestampNum.isNaN /\ Abs(clock - timestampNum.value) >= toleranceSeconds

\* Math.abs(now - timestampNum) > toleranceSeconds; false when timestampNum is NaN
IsStale(clock, timestampNum, toleranceSeconds) ==
    ~timestampNum.isNaN /\ Abs(clock - timestampNum.value) > toleranceSeconds

(***************************************************************************)
(* SahelPayMerchant.verifyWebhook (TypeScript merchant SDK).               *)
(***************************************************************************)
\* the catch block: the thrown error's message becomes the result's error
CaughtRangeError == Returned(FALSE, "Input buffers must have the same byte length", JsonUndefined)

CaughtSyntaxError == Returned(FALSE, "Unexpected token in JSON", JsonUndefined)

\* return { valid: true, payload: JSON.parse(rawBody) } inside the try
ValidWithPayload(rawBody) ==
    IF JSON_parse(rawBody).ok
    THEN Returned(TRUE, "undefined", JSON_parse(rawBody).value)
    ELSE CaughtSyntaxError

verifyWebhook(webhookSecret, rawBody, signatureHeader, toleranceSeconds, clock) ==
    IF webhookSecret = NoSecret
    THEN Returned(FALSE, "webhookSecret not configured", JsonUndefined)
    ELSE IF ~JsTruthy(signatureHeader)
    THEN Returned(FALSE, "Missing signature header", JsonUndefined)
    ELSE
      LET timestamp == JsParts(signatureHeader, KeyT)
          signature == JsParts(signatureHeader, KeyV1)
      IN  IF IsLegacyForm(timestamp, signature, signatureHeader)
          THEN LET cmp == timingSafeEqual(signatureHeader, hash_hmac(webhookSecret, rawBody))
               IN  IF cmp.threw THEN CaughtRangeError
                   ELSE IF ~cmp.equal
                   THEN Returned(FALSE, "Invalid signature (legacy)", JsonUndefined)
                   ELSE ValidWithPayload(rawBody)
          ELSE IF ~JsTruthy(timestamp) \/ ~JsTruthy(signature)
          THEN Returned(FALSE, "Invalid signature header format", JsonUndefined)
          ELSE
            LET timestampNum == parseInt(timestamp)
            IN  IF IsStale(clock, timestampNum, toleranceSeconds)
                THEN Returned(FALSE, "Timestamp too old, possible replay attack", JsonUndefined)
                ELSE
                  LET cmp == timingSafeEqual(signature,
                                 hash_hmac(webhookSecret, timestamp \o <<".">> \o rawBody))
                  IN  IF cmp.threw THEN CaughtRangeError
                      ELSE IF ~cmp.equal
                      THEN Returned(FALSE, "Invalid signature", JsonUndefined)
                      ELSE ValidWithPayload(rawBody)

(***************************************************************************)
(* verifySignature of the Next.js template's webhook route.                *)
(***************************************************************************)
verifySignature(payload, signatureHeader, secret, toleranceSeconds, clock) ==
    IF signatureHeader = null
    THEN \* signatureHeader.split throws a TypeError inside the try
         Returned(FALSE, "TypeError: Cannot read properties of null", JsonUndefined)
    ELSE
      LET timestamp == JsParts(signatureHeader, KeyT)
          signature == JsParts(signatureHeader, KeyV1)
      IN  IF IsLegacyForm(timestamp, signature, signatureHeader)
          THEN LET cmp == timingSafeEqual(signatureHeader, hash_hmac(secret, payload))
               IN  IF cmp.threw
                   THEN Returned(FALSE, "RangeError: Input buffers must have the same byte length", JsonUndefined)
                   ELSE Returned(cmp.equal, "undefined", JsonUndefined)
          ELSE IF ~JsTruthy(timestamp) \/ ~JsTruthy(signature)
          THEN Returned(FALSE, "Invalid signature format", JsonUndefined)
          ELSE
            LET timestampNum == parseInt(timestamp)
            IN  IF IsStale(clock, timestampNum, toleranceSeconds)
                THEN Returned(FALSE, "Timestamp too old", JsonUndefined)
                ELSE
                  LET cmp == timingSafeEqual(signature,
                                 hash_hmac(secret, timestamp \o <<".">> \o payload))
                  IN  IF cmp.threw
                      THEN Returned(FALSE, "RangeError: Input buffers must have the same byte length", JsonUndefined)
                      ELSE Returned(cmp.equal,
                                    IF cmp.equal THEN "undefined" ELSE "Invalid signature",
                                    JsonUndefined)

(***************************************************************************)
(* WebhooksAPI of the full TypeScript SDK.                                 *)
(***************************************************************************)
\* inBrowser: typeof window !== 'undefined'
WebhooksAPI_verifySignature(payload, signature, secret, inBrowser) ==
    IF ~inBrowser
    THEN Returned(signature = hash_hmac(secret, payload), "undefined", JsonUndefined)
    ELSE Returned(FALSE, "undefined", JsonUndefined)

WebhooksAPI_parseEvent_unverified(payload, signature, secret, inBrowser) ==
    IF JSON_parse(payload).ok
    THEN Returned(TRUE, "undefined", JSON_parse(payload).value)
    ELSE Thrown("SyntaxError", "Unexpected token in JSON")

WebhooksAPI_parseEvent(payload, signature, secret, inBrowser) ==
    IF ~WebhooksAPI_verifySignature(payload, signature, secret, inBrowser).valid
    THEN Thrown("Error", "Invalid webhook signature")
    ELSE IF JSON_parse(payload).ok
    THEN Returned(TRUE, "undefined", JSON_parse(payload).value)
    ELSE Thrown("SyntaxError", "Unexpected token in JSON")

(***************************************************************************)
(* PHP SDK: Resources\Webhook.                                             *)
(***************************************************************************)
\* Webhook::parse: json_decode, InvalidArgumentException on a falsy result
Webhook_parse(payload) ==
    IF json_decode(payload).kind = "null"
    THEN Thrown("InvalidArgumentException", "Payload JSON invalide")
    ELSE Returned(TRUE, "undefined", json_decode(payload))

\* Webhook::verify of php/src/Resources/Webhook.php (t=..,v1=.. format)
Webhook_verify(secret, payload, signatureHeader, tolerance, clock) ==
    IF signatureHeader = null
    THEN Thrown("TypeError", "Argument #2 ($signatureHeader) must be of type string, null given")
    ELSE IF secret = NoSecret
    THEN Thrown("RuntimeException", "Webhook secret non configure")
    ELSE
      LET timestamp == parseSignatureHeader(signatureHeader, KeyT)
          signature == parseSignatureHeader(signatureHeader, KeyV1)
      IN  IF ~PhpTruthy(timestamp) \/ ~PhpTruthy(signature)
          THEN Thrown("WebhookSignatureException", "Format de signature invalide")
          ELSE IF Abs(clock - intval(timestamp)) > tolerance
          THEN Thrown("WebhookSignatureException", "Timestamp trop ancien, possible replay attack")
          ELSE IF ~hash_equals(hash_hmac(secret, timestamp \o <<".">> \o payload), signature)
          THEN Thrown("WebhookSignatureException", "Signature invalide")
          ELSE Returned(TRUE, "undefined", JsonUndefined)

Webhook_constructEvent(secret, payload, signatureHeader, tolerance, clock) ==
    IF Webhook_verify(secret, payload, signatureHeader, tolerance, clock).threw # "none"
    THEN Webhook_verify(secret, payload, signatureHeader, tolerance, clock)
    ELSE Webhook_parse(payload)

\* Webhook::verify of the second copy of the class (bare signature, no timestamp)
Webhook_verify_bare(secret, payload, signature) ==
    IF signature = null
    THEN Thrown("TypeError", "Argument #2 ($signature) must be of type string, null given")
    ELSE IF secret = NoSecret
    THEN Thrown("RuntimeException", "Webhook secret non configure")
    ELSE Returned(hash_equals(hash_hmac(secret, payload), signature), "undefined", JsonUndefined)

(***************************************************************************)
(* Inputs of the verification calls.                                       *)
(***************************************************************************)
\* values of Date.now()/1000 and time(): Epoch, and a moment more than one
\* default tolerance later
Instants == {Epoch, Epoch + DEFAULT_TOLERANCE + MaxSkew}

\* the t= field of a header: decimal timestamps (0, the ones up to MaxSkew
\* after Epoch, the later instant), and one that is no number
Timestamps ==
    {IntToStr(0), IntToStr(Epoch + DEFAULT_TOLERANCE + MaxSkew), <<"x">>}
        \cup {IntToStr(Epoch + d) : d \in 0..MaxSkew}

Tolerances == {0, DEFAULT_TOLERANCE}

BodySuccess == <<"{","S","o","}">>

BodyFailed == <<"{","F","o","}">>

BodyNoOrder == <<"{","S","}">>

BodyNotJson == <<"i","n","v">>

BodyNull == <<"n","u","l","l">>

Bodies == {BodySuccess, BodyFailed, BodyNoOrder, BodyNotJson, BodyNull}

\* the bodies of the verification calls
VerifyBodies == {BodySuccess, BodyFailed, BodyNotJson}

Secrets == {NoSecret, SecretA, SecretB}

SigningSecrets == {SecretA, SecretB}

\* the header the Gateway sends: t=<ts>,v1=<sig>
StripeHeader(ts, sig) == <<"t","=">> \o ts \o <<",","v","1","=">> \o sig

\* the signature the Gateway computes for a body at a timestamp
Sign(secret, ts, body) == hash_hmac(secret, ts \o <<".">> \o body)

BadSignature == <<"b","a","d","_","s","i","g","n","a","t","u","r","e">>

WrongDigest == Repeat("a", LEGACY_LENGTH)

SignedHeaders ==
    {StripeHeader(ts, Sign(k, ts, b)) : ts \in Timestamps, k \in SigningSecrets, b \in VerifyBodies}

ForgedHeaders ==
    {StripeHeader(ts, sig) : ts \in Timestamps, sig \in {BadSignature, WrongDigest}}

LegacyHeaders == {hash_hmac(k, b) : k \in SigningSecrets, b \in VerifyBodies} \cup {WrongDigest}

MalformedHeaders ==
    { null, <<>>, BadSignature,
      <<"t","=">> \o IntToStr(Epoch),
      <<"v","1","=">> \o Sign(SecretA, IntToStr(Epoch), BodySuccess),
      StripeHeader(<<>>, Sign(SecretA, <<>>, BodySuccess)),
      StripeHeader(IntToStr(Epoch), Sign(SecretA, IntToStr(Epoch), BodySuccess)) \o <<"=","x">> }

Headers == SignedHeaders \cup ForgedHeaders \cup LegacyHeaders \cup MalformedHeaders

(***************************************************************************)
(* Specification of the verification calls: the state is the clock and the *)
(* last call with its outcome.                                             *)
(***************************************************************************)
Functions ==
    {"verifyWebhook", "verifySignature", "WebhooksAPI.verifySignature",
     "WebhooksAPI.parseEvent", "Webhook::verify", "Webhook::constructEvent",
     "Webhook::verify(bare)"}

Run(fn, secret, rawBody, header, tolerance, clock, inBrowser) ==
    CASE fn = "verifyWebhook" -> verifyWebhook(secret, rawBody, header, tolerance, clock)
      [] fn = "verifySignature" -> verifySignature(rawBody, header, secret, tolerance, clock)
      [] fn = "WebhooksAPI.verifySignature" ->
            WebhooksAPI_verifySignature(rawBody, header, secret, inBrowser)
      [] fn = "WebhooksAPI.parseEvent" ->
            WebhooksAPI_parseEvent(rawBody, header, secret, inBrowser)
      [] fn = "Webhook::verify" -> Webhook_verify(secret, rawBody, header, tolerance, clock)
      [] fn = "Webhook::constructEvent" ->
            Webhook_constructEvent(secret, rawBody, header, tolerance, clock)
      [] fn = "Webhook::verify(bare)" -> Webhook_verify_bare(secret, rawBody, header)

NoCall ==
    [fn |-> "none", secret |-> NoSecret, rawBody |-> <<>>, header |-> null,
     tolerance |-> DEFAULT_TOLERANCE, at |-> Epoch, inBrowser |-> FALSE,
     changed |-> "none", result |-> Returned(FALSE, "undefined", JsonUndefined)]

Called(fn, secret, rawBody, header, tolerance, inBrowser, changed) ==
    [fn |-> fn, secret |-> secret, rawBody |-> rawBody, header |-> header,
     tolerance |-> tolerance, at |-> now, inBrowser |-> inBrowser, changed |-> changed,
     result |-> Run(fn, secret, rawBody, header, tolerance, now, inBrowser)]

NoRequest == [rawBody |-> <<>>, header |-> null, pending |-> FALSE]

NoResponse == [status |-> 0, error |-> "undefined", received |-> FALSE]

NoEvent == JsonUndefined

\* a status snapshot (Payment, Payout): its status and the check that returned it
Snapshot(status, check) == [status |-> status, check |-> check]

NoSnapshot == Snapshot("undefined", 0)

\* no lookup and no payout creation has been made
NoSdkCall ==
    [op |-> "none", method |-> "", capability |-> "", amount |-> 0, phone |-> "",
     orderId |-> "", result |-> "none",
     error |-> [class |-> "none", message |-> "", names |-> {}],
     sent |-> 0, idempotencyKey |-> ""]

\* the identifiers of the payments of the model
TxIds == {"pay_1", "pay_2"}

NoDelivery == [event |-> "none", id |-> "none", before |-> "absent", decision |-> "none"]

NoPage == [paymentId |-> "none", status |-> "loading", fetching |-> FALSE, timer |-> FALSE]

\* a merchant with no payment recorded, no order paid and no page open
NoShop ==
    [handler |-> "none", payments |-> [id \in TxIds |-> "absent"],
     orders |-> [id \in TxIds |-> "pending"], delivery |-> NoDelivery, page |-> NoPage]

\* no poll has been started
NoPoll ==
    [api |-> "none", pc |-> "idle", start |-> 0, timeout |-> 0, interval |-> 0,
     delay |-> 0,
     hasOnStatus |-> FALSE, sent |-> 0, due |-> 0, checks |-> 0, returned |-> <<>>,
     failed |-> 0, onStatus |-> <<>>, threw |-> {}, waits |-> <<>>,
     result |-> NoSnapshot, error |-> "undefined"]

\* no request has been made
NoHttp ==
    [client |-> "none", pc |-> "idle", method |-> "", path |-> "", config |-> 0,
     timeout |-> 0,
     timer |-> "none", elapsed |-> 0, cause |-> "none", status |-> 0,
     body |-> [json |-> FALSE, status |-> "", code |-> ""],
     result |-> "none", error |-> [name |-> "none", code |-> "", statusCode |-> 0]]

\* the polls of the concurrent runs
Pollers == {1, 2}

NoPolls == [i \in Pollers |-> NoPoll]

\* no GatewayEventSource has been constructed
NoStream ==
    [pc |-> "none", browser |-> FALSE, reconnectInterval |-> 0,
     eventSource |-> "null", isConnected |-> FALSE,
     reconnectAttempts |-> 0, reconnectTimeout |-> 0, unlimited |-> FALSE,
     maxReconnectAttempts |-> 0, timers |-> {}, set |-> 0, fired |-> 0, sources |-> 0,
     disconnected |-> FALSE]

InitVerify ==
    /\ now = Epoch
    /\ call = NoCall
    /\ env = NoSecret
    /\ request = NoRequest
    /\ response = NoResponse
    /\ processed = NoEvent
    /\ time = 0
    /\ poll = NoPoll
    /\ sdk = NoSdkCall
    /\ shop = NoShop
    /\ http = NoHttp
    /\ polls = NoPolls
    /\ stream = NoStream

\* time passes between two calls
Tick ==
    /\ call = NoCall
    /\ \E t \in Instants : t > now /\ now' = t
    /\ UNCHANGED <<call, hookVars, pollVars, shop, sdk, streamVars>>

\* the caller is done with the outcome of the last call
Return ==
    /\ call # NoCall
    /\ call' = NoCall
    /\ UNCHANGED <<now, hookVars, pollVars, shop, sdk, streamVars>>

\* the calls: each is made with any secret, body, header and tolerance
CallInputs == Secrets \X VerifyBodies \X Headers \X Tolerances

VerifyWebhookCall ==
    /\ call = NoCall
    /\ \E i \in CallInputs :
          call' = Called("verifyWebhook", i[1], i[2], i[3], i[4], FALSE, "none")
    /\ UNCHANGED <<now, hookVars, pollVars, shop, sdk, streamVars>>

VerifySignatureCall ==
    /\ call = NoCall
    /\ \E i \in CallInputs :
          call' = Called("verifySignature", i[1], i[2], i[3], i[4], FALSE, "none")
    /\ UNCHANGED <<now, hookVars, pollVars, shop, sdk, streamVars>>

WebhookVerifyCall ==
    /\ call = NoCall
    /\ \E i \in CallInputs :
          call' = Called("Webhook::verify", i[1], i[2], i[3], i[4], FALSE, "none")
    /\ UNCHANGED <<now, hookVars, pollVars, shop, sdk, streamVars>>

ConstructEventCall ==
    /\ call = NoCall
    /\ \E i \in CallInputs :
          call' = Called("Webhook::constructEvent", i[1], i[2], i[3], i[4], FALSE, "none")
    /\ UNCHANGED <<now, hookVars, pollVars, shop, sdk, streamVars>>

\* the verifiers below take no tolerance and read no clock
WebhooksVerifySignatureCall ==
    /\ call = NoCall
    /\ \E i \in Secrets \X VerifyBodies \X Headers, inBrowser \in BOOLEAN :
          call' = Called("WebhooksAPI.verifySignature", i[1], i[2], i[3],
                         DEFAULT_TOLERANCE, inBrowser, "none")
    /\ UNCHANGED <<now, hookVars, pollVars, shop, sdk, streamVars>>

ParseEventCall ==
    /\ call = NoCall
    /\ \E i \in Secrets \X VerifyBodies \X Headers, inBrowser \in BOOLEAN :
          call' = Called("WebhooksAPI.parseEvent", i[1], i[2], i[3],
                         DEFAULT_TOLERANCE, inBrowser, "none")
    /\ UNCHANGED <<now, hookVars, pollVars, shop, sdk, streamVars>>

WebhookVerifyBareCall ==
    /\ call = NoCall
    /\ \E i \in Secrets \X VerifyBodies \X Headers :
          call' = Called("Webhook::verify(bare)", i[1], i[2], i[3],
                         DEFAULT_TOLERANCE, FALSE, "none")
    /\ UNCHANGED <<now, hookVars, pollVars, shop, sdk, streamVars>>

\* where the signature hex starts in a header: after "v1=", or at the start
\* of a bare signature
SigStart(header) ==
    IF IndexOf(header, "v", 1) = 0 THEN 1 ELSE IndexOf(header, "v", 1) + 3

FlipOffsets == {0, LEGACY_LENGTH - 1}

FlipChars == {"0", "a", "=", ","}

\* the header with one byte of its signature hex replaced
FlipByte(header, offset, c) == [header EXCEPT ![SigStart(header) + offset] = c]

\* after a call that accepted, the same call again with the body, the secret
\* or one byte of the signature changed (the clock unchanged)
Tamper ==
    /\ call # NoCall
    /\ call.changed = "none"
    /\ call.result.valid
    /\ \/ \E b \in VerifyBodies \ {call.rawBody} :
             call' = Called(call.fn, call.secret, b, call.header, call.tolerance,
                            call.inBrowser, "body")
       \/ \E k \in Secrets \ {call.secret} :
             call' = Called(call.fn, k, call.rawBody, call.header, call.tolerance,
                            call.inBrowser, "secret")
       \/ \E o \in FlipOffsets, c \in FlipChars :
             /\ call.header[SigStart(call.header) + o] # c
             /\ call' = Called(call.fn, call.secret, call.rawBody,
                               FlipByte(call.header, o, c), call.tolerance,
                               call.inBrowser, "signature")
    /\ UNCHANGED <<now, hookVars, pollVars, shop, sdk, streamVars>>

NextVerify ==
    \/ Tick
    \/ Return
    \/ VerifyWebhookCall
    \/ VerifySignatureCall
    \/ WebhookVerifyCall
    \/ ConstructEventCall
    \/ WebhooksVerifySignatureCall
    \/ ParseEventCall
    \/ WebhookVerifyBareCall
    \/ Tamper

SpecVerify == InitVerify /\ [][NextVerify]_vars

(***************************************************************************)
(* Properties of the verification calls.                                   *)
(***************************************************************************)
IsPrefix(p, s) == Len(p) <= Len(s) /\ SubSeq(s, 1, Len(p)) = p

\* the timestamps of the model that are numbers
NumericTimes == {0, Epoch + DEFAULT_TOLERANCE + MaxSkew} \cup {Epoch + d : d \in 0..MaxSkew}

\* t=<t>,v1=<hex HMAC-SHA256(secret, "<t>.<rawBody>")>
GenuineHeader(secret, t, rawBody) ==
    StripeHeader(IntToStr(t), Sign(secret, IntToStr(t), rawBody))

\* the header is in the t=<t>,v1=<something> format
HasTimestamp(header, t) ==
    LET p == <<"t","=">> \o IntToStr(t) \o <<",","v","1","=">>
    IN  header # null /\ IsPrefix(p, header) /\ Len(header) > Len(p)

\* a bare signature: 64 characters, no key=value pair
IsBareSignature(header) ==
    /\ header # null
    /\ Len(header) = LEGACY_LENGTH
    /\ IndexOf(header, "=", 1) = 0
    /\ IndexOf(header, ",", 1) = 0

\* the signature the header carries is the HMAC of this body under this
\* secret: with the header's timestamp, or bare
Authentic(secret, rawBody, header) ==
    /\ header # null
    /\ \/ header = hash_hmac(secret, rawBody)
       \/ \E ts \in Timestamps : IsPrefix(StripeHeader(ts, Sign(secret, ts, rawBody)), header)

AcceptanceCase(t) ==
    /\ call.fn \in {"verifyWebhook", "verifySignature", "Webhook::verify"}
    /\ call.secret # NoSecret
    /\ call.header = GenuineHeader(call.secret, t, call.rawBody)
    /\ Abs(call.at - t) <= call.tolerance

StaleErrors ==
    {"Timestamp too old, possible replay attack", "Timestamp trop ancien, possible replay attack"}

\* C3: a header in the t=,v1= format whose timestamp is more than the
\* tolerance away from the clock is rejected with the stale-timestamp error
\* by verifyWebhook and by Webhook::verify, whatever its signature.
C3_StaleIsReportedStale ==
    \A t \in NumericTimes :
        (/\ call.fn \in {"verifyWebhook", "Webhook::verify"}
         /\ call.secret # NoSecret
         /\ HasTimestamp(call.header, t)
         /\ Abs(call.at - t) > call.tolerance)
        => (~call.result.valid /\ call.result.error \in StaleErrors)

LegacyCase ==
    /\ call.fn \in {"verifyWebhook", "verifySignature", "WebhooksAPI.verifySignature"}
    /\ IsBareSignature(call.header)

C5_InvalidCarriesError ==
    (call.fn \in {"verifyWebhook", "verifySignature"} /\ ~call.result.valid)
        => (call.result.threw = "none" /\ call.result.error # "undefined")

\* C6: with a secret configured, PHP Webhook::verify(payload, signature)
\* returns true for the hex HMAC-SHA256 of the payload and returns false,
\* without throwing, for any other signature.
C6_BareSignatureVerifies ==
    (/\ call.fn = "Webhook::verify"
     /\ call.secret # NoSecret
     /\ call.header # null)
    => /\ call.result.threw = "none"
       /\ call.result.valid = (call.header = hash_hmac(call.secret, call.rawBody))

\* C7: WebhooksAPI.parseEvent, Webhook::constructEvent and verifyWebhook hand
\* out a parsed event only when the signature of that exact raw body was
\* verified (and, where the header carries a timestamp, it is within the
\* tolerance); the event is the parse of that body.
C7_VerifyThenParse ==
    (/\ call.fn \in {"WebhooksAPI.parseEvent", "Webhook::constructEvent", "verifyWebhook"}
     /\ call.result.payload # JsonUndefined)
    => /\ Authentic(call.secret, call.rawBody, call.header)
       /\ \A t \in NumericTimes :
             HasTimestamp(call.header, t) => Abs(call.at - t) <= call.tolerance
       /\ JSON_parse(call.rawBody).ok
       /\ call.result.payload = JSON_parse(call.rawBody).value

\* parseEvent returned the event of a verified body
C7_Witness ==
    /\ call.fn = "WebhooksAPI.parseEvent"
    /\ call.result.payload.kind = "object"

(***************************************************************************)
(* The webhook route of the Next.js template: POST /api/webhooks/sahelpay. *)
(***************************************************************************)
Responded(status, error, received) ==
    [status |-> status, error |-> error, received |-> received]

\* the handler from the parse of the body on: JSON.parse, the order id, the
\* switch; any exception ends in the catch block's 500
HandleEvent(rawBody) ==
    LET payload == JSON_parse(rawBody)
    IN  IF ~payload.ok \/ payload.value.kind # "object"
        THEN \* SyntaxError, or the TypeError of destructuring null
             [response |-> Responded(500, "Internal error", FALSE), processed |-> NoEvent]
        ELSE IF payload.value.orderId = ""
        THEN [response |-> Responded(400, "Missing order_id", FALSE), processed |-> NoEvent]
        ELSE [response |-> Responded(200, "undefined", TRUE), processed |-> payload.value]

\* POST(request), with SAHELPAY_WEBHOOK_SECRET = secret
POST(secret, rawBody, header, clock) ==
    LET \* request.headers.get('x-sahelpay-signature') || ''
        signature == IF JsTruthy(header) THEN header ELSE <<>>
        verification == verifySignature(rawBody, signature, secret, DEFAULT_TOLERANCE, clock)
    IN  IF secret # NoSecret /\ ~JsTruthy(signature)
        THEN [response |-> Responded(401, "Missing signature", FALSE), processed |-> NoEvent]
        ELSE IF secret # NoSecret /\ ~verification.valid
        THEN [response |-> Responded(401, verification.error, FALSE), processed |-> NoEvent]
        ELSE HandleEvent(rawBody)

\* the requests: every body with every header, and the headers the Gateway
\* signs for the bodies the verification calls leave out
HookHeaders ==
    Headers \cup {StripeHeader(ts, Sign(SecretA, ts, b)) :
                     ts \in Timestamps, b \in {BodyNoOrder, BodyNull}}

InitWebhook ==
    /\ now = Epoch
    /\ call = NoCall
    /\ env \in Secrets
    /\ request = NoRequest
    /\ response = NoResponse
    /\ processed = NoEvent
    /\ time = 0
    /\ poll = NoPoll
    /\ sdk = NoSdkCall
    /\ shop = NoShop
    /\ http = NoHttp
    /\ polls = NoPolls
    /\ stream = NoStream

\* a request arrives and is answered
Post ==
    /\ ~request.pending
    /\ \E rawBody \in Bodies, header \in HookHeaders :
          /\ request' = [rawBody |-> rawBody, header |-> header, pending |-> TRUE]
          /\ response' = POST(env, rawBody, header, now).response
          /\ processed' = POST(env, rawBody, header, now).processed
    /\ UNCHANGED <<now, call, env, pollVars, shop, sdk, streamVars>>

\* the response is sent; the route waits for the next request
Sent ==
    /\ request.pending
    /\ request' = NoRequest
    /\ response' = NoResponse
    /\ processed' = NoEvent
    /\ UNCHANGED <<now, call, env, pollVars, shop, sdk, streamVars>>

\* time passes between two requests
HookTick ==
    /\ ~request.pending
    /\ \E t \in Instants : t > now /\ now' = t
    /\ UNCHANGED <<call, hookVars, pollVars, shop, sdk, streamVars>>

NextWebhook ==
    \/ Post
    \/ Sent
    \/ HookTick

SpecWebhook == InitWebhook /\ [][NextWebhook]_vars

(***************************************************************************)
(* Properties of the webhook route.                                        *)
(***************************************************************************)
\* the request's signature verifies: the secret is configured, and the header
\* carries the HMAC of this body under it, fresh where it has a timestamp
SignatureVerifies ==
    /\ env # NoSecret
    /\ Authentic(env, request.rawBody, request.header)
    /\ \A t \in NumericTimes :
          HasTimestamp(request.header, t) => Abs(now - t) <= DEFAULT_TOLERANCE

\* C8: a request whose signature does not verify (missing, malformed,
\* mismatched, stale), under every environment configuration, is answered
\* 401 and its event is not processed.
C8_UnverifiedIsRejected ==
    (request.pending /\ ~SignatureVerifies)
        => (response.status = 401 /\ processed = NoEvent)

\* C9: a verified request whose body is not valid JSON is answered 400, and
\* a verified well-formed event is answered 200 with an acknowledgment.
C9_MalformedIs400 ==
    (request.pending /\ SignatureVerifies)
        => /\ ~JSON_parse(request.rawBody).ok => response.status = 400
           /\ request.rawBody \in {BodySuccess, BodyFailed}
                 => (response.status = 200 /\ response.received)

(***************************************************************************)
(* The status poller: PaymentsAPI.poll and PayoutsAPI.poll.                *)
(*                                                                         *)
(* A poll is the closure of one call: start, timeout and delay, the timer  *)
(* it has set (due) and its promise (pc, result, error).  The record also  *)
(* logs what the caller can observe: the statuses the checks returned, the *)
(* calls of onStatus and the waits passed to setTimeout.                   *)
(***************************************************************************)
\* the most checks one poll makes in the model
MaxChecks == 4

\* the longest a status request takes to answer (ms)
MaxLatency == 250

DEFAULT_TIMEOUT == 120000

DEFAULT_INTERVAL == 2000

MAX_DELAY == 10000

Min(a, b) == IF a < b THEN a ELSE b

\* x || d on numbers: undefined (here 0) and 0 are both falsy
JsOr(x, d) == IF x = 0 THEN d ELSE x

Apis == {"payments", "payouts"}

\* the statuses a check can return: Payment.status, Payout.status
Statuses(api) ==
    IF api = "payments"
    THEN {"PENDING", "SUCCESS", "FAILED", "CANCELLED", "EXPIRED"}
    ELSE {"PENDING", "PROCESSING", "COMPLETED", "FAILED", "CANCELLED"}

\* the statuses on which poll resolves
TerminalStatuses(api) ==
    IF api = "payments"
    THEN {"SUCCESS", "FAILED", "CANCELLED"}
    ELSE {"COMPLETED", "FAILED", "CANCELLED"}

\* the error of a poll that ran out of time
TimeoutError(api) ==
    IF api = "payments"
    THEN "Error: Polling timeout"
    ELSE "SahelPayError: Polling timeout (TIMEOUT, 408)"

\* the errors of a status request: the request timed out, fetch failed
RequestErrors == {"SahelPayError: Request timeout (TIMEOUT, 408)", "TypeError: fetch failed"}

\* delay = Math.min(delay * 1.5, 10000); exact for the even delays of the model
Backoff(delay) == Min((delay * 3) \div 2, MAX_DELAY)

\* poll(reference, options) up to its first call of check()
poll_start(api, interval, timeout, hasOnStatus, clock) ==
    [NoPoll EXCEPT !.api = api, !.pc = "checking", !.start = clock, !.sent = clock,
                   !.timeout = JsOr(timeout, DEFAULT_TIMEOUT),
                   !.interval = JsOr(interval, DEFAULT_INTERVAL),
                   !.delay = JsOr(interval, DEFAULT_INTERVAL),
                   !.hasOnStatus = hasOnStatus]

\* check() without the deadline test: a non-terminal result always waits
check_returned_noDeadline(p, status, clock) ==
    LET n == p.checks + 1
        snapshot == Snapshot(status, n)
        q == [p EXCEPT !.checks = n, !.returned = Append(@, status),
                       !.onStatus = IF p.hasOnStatus THEN Append(@, snapshot) ELSE @]
    IN  IF status \in TerminalStatuses(p.api)
        THEN [q EXCEPT !.pc = "resolved", !.result = snapshot]
        ELSE [q EXCEPT !.pc = "waiting", !.delay = Backoff(p.delay),
                       !.due = clock + Backoff(p.delay),
                       !.waits = Append(@, Backoff(p.delay))]

\* check(), from the answer of the status request on: the try block
check_returned(p, status, clock) ==
    LET n == p.checks + 1
        snapshot == Snapshot(status, n)
        q == [p EXCEPT !.checks = n, !.returned = Append(@, status),
                       !.onStatus = IF p.hasOnStatus THEN Append(@, snapshot) ELSE @]
    IN  IF status \in TerminalStatuses(p.api)
        THEN [q EXCEPT !.pc = "resolved", !.result = snapshot]
        ELSE IF clock - p.start > p.timeout
        THEN [q EXCEPT !.pc = "rejected", !.error = TimeoutError(p.api)]
        ELSE [q EXCEPT !.pc = "waiting", !.delay = Backoff(p.delay),
                       !.due = clock + Backoff(p.delay),
                       !.waits = Append(@, Backoff(p.delay))]

\* a catch block that rejects past the deadline and sets the timer all the same
check_failed_rejectsAndRetries(p, error, clock) ==
    LET q == [p EXCEPT !.checks = p.checks + 1, !.failed = p.failed + 1,
                       !.pc = "waiting", !.due = clock + p.delay,
                       !.waits = Append(@, p.delay)]
    IN  IF clock - p.start > p.timeout THEN [q EXCEPT !.error = error] ELSE q

\* check() retrying every failure, whatever the elapsed time
check_failed_retriesForever(p, error, clock) ==
    LET q == [p EXCEPT !.checks = p.checks + 1, !.failed = p.failed + 1]
    IN  [q EXCEPT !.pc = "waiting", !.due = clock + p.delay,
                  !.waits = Append(@, p.delay)]

\* check(), when the status request throws: the catch block
check_failed(p, error, clock) ==
    LET q == [p EXCEPT !.checks = p.checks + 1, !.failed = p.failed + 1]
    IN  IF clock - p.start > p.timeout
        THEN [q EXCEPT !.pc = "rejected", !.error = error]
        ELSE [q EXCEPT !.pc = "waiting", !.due = clock + p.delay,
                       !.waits = Append(@, p.delay)]

\* check(), when options.onStatus throws: the rest of the try block is
\* skipped and the catch block runs with the error of the callback
check_threw(p, status, error, clock) ==
    LET n == p.checks + 1
        q == [p EXCEPT !.checks = n, !.returned = Append(@, status),
                       !.onStatus = Append(@, Snapshot(status, n)),
                       !.threw = @ \cup {n}]
    IN  IF clock - p.start > p.timeout
        THEN [q EXCEPT !.pc = "rejected", !.error = error]
        ELSE [q EXCEPT !.pc = "waiting", !.due = clock + p.delay,
                       !.waits = Append(@, p.delay)]

\* options.interval: left out, and three MaxChecks-fold even values, one
\* that reaches the cap in one step and one above the cap
Intervals == {0, 8000, 12000}

\* options.timeout: left out, and one that the first wait of the default
\* interval reaches exactly
Timeouts == {0, 3000}

Latencies == {0, MaxLatency}

InitPoll ==
    /\ now = Epoch
    /\ call = NoCall
    /\ env = NoSecret
    /\ request = NoRequest
    /\ response = NoResponse
    /\ processed = NoEvent
    /\ time = 0
    /\ poll = NoPoll
    /\ sdk = NoSdkCall
    /\ shop = NoShop
    /\ http = NoHttp
    /\ polls = NoPolls
    /\ stream = NoStream

\* poll() is called: the first status request is sent
PollCall ==
    /\ poll.pc = "idle"
    /\ \E api \in Apis, interval \in Intervals, timeout \in Timeouts,
          hasOnStatus \in BOOLEAN :
          poll' = poll_start(api, interval, timeout, hasOnStatus, time)
    /\ UNCHANGED <<now, call, hookVars, time, shop, sdk, streamVars>>

\* the status request is answered
StatusReturns ==
    /\ poll.pc = "checking"
    /\ poll.checks < MaxChecks
    /\ \E status \in Statuses(poll.api), latency \in Latencies :
          /\ time' = time + latency
          /\ poll' = check_returned(poll, status, time')
    /\ UNCHANGED <<now, call, hookVars, shop, sdk, streamVars>>

\* the status request fails
StatusFails ==
    /\ poll.pc = "checking"
    /\ poll.checks < MaxChecks
    /\ \E error \in RequestErrors, latency \in Latencies :
          /\ time' = time + latency
          /\ poll' = check_failed(poll, error, time')
    /\ UNCHANGED <<now, call, hookVars, shop, sdk, streamVars>>

\* the timer set by setTimeout(check, delay) fires: the next request is sent
TimerFires ==
    /\ poll.pc = "waiting"
    /\ time' = IF poll.due > time THEN poll.due ELSE time
    /\ poll' = [poll EXCEPT !.pc = "checking", !.sent = time']
    /\ UNCHANGED <<now, call, hookVars, shop, sdk, streamVars>>

NextPoll ==
    \/ PollCall
    \/ StatusReturns
    \/ StatusFails
    \/ TimerFires

SpecPoll == InitPoll /\ [][NextPoll]_vars

(***************************************************************************)
(* Properties of the poller.                                               *)
(***************************************************************************)
\* the terminal and the non-terminal statuses of the specification
SpecTerminal == {"SUCCESS", "COMPLETED", "FAILED", "CANCELLED", "EXPIRED"}

SpecNonTerminal == {"PENDING", "PROCESSING"}

\* the checks so far returned non-terminal results and then a terminal one,
\* none failed, and the time is within the timeout
SuccessPath ==
    /\ poll.checks >= 1
    /\ poll.failed = 0
    /\ poll.hasOnStatus
    /\ time - poll.start <= poll.timeout
    /\ poll.returned[poll.checks] \in SpecTerminal
    /\ \A i \in 1..(poll.checks - 1) : poll.returned[i] \in SpecNonTerminal

\* C10: when the checks return n non-terminal results followed by a terminal
\* one (no errors, within the timeout), poll resolves with the snapshot of
\* the terminal check and has called onStatus exactly n+1 times, once per
\* check and in the order the results were returned.
C10_SuccessPathResolves ==
    SuccessPath
        => /\ poll.pc = "resolved"
           /\ poll.result = Snapshot(poll.returned[poll.checks], poll.checks)
           /\ Len(poll.onStatus) = poll.checks
           /\ \A i \in 1..poll.checks :
                 poll.onStatus[i] = Snapshot(poll.returned[i], i)

(***************************************************************************)
(* The poller when every status check returns PENDING.  The timers of the  *)
(* event loop fire and every status request is answered, so both steps are *)
(* weakly fair.                                                            *)
(***************************************************************************)
\* more checks than a run of PENDING results makes before the timeout ends it
MaxPendingChecks == 20

\* the status request is answered PENDING
PendingReturns ==
    /\ poll.pc = "checking"
    /\ poll.checks < MaxPendingChecks
    /\ \E latency \in Latencies :
          /\ time' = time + latency
          /\ poll' = check_returned(poll, "PENDING", time')
    /\ UNCHANGED <<now, call, hookVars, shop, sdk, streamVars>>

NextPollPending ==
    \/ PollCall
    \/ PendingReturns
    \/ TimerFires

SpecPollPending ==
    InitPoll /\ [][NextPollPending]_vars
             /\ WF_vars(PendingReturns) /\ WF_vars(TimerFires)

\* the wait passed to the last setTimeout (0 before the first)
LastWait(p) == IF Len(p.waits) = 0 THEN 0 ELSE p.waits[Len(p.waits)]

\* no check failed and every check returned PENDING
AllPending ==
    /\ poll.failed = 0
    /\ \A i \in 1..Len(poll.returned) : poll.returned[i] = "PENDING"

\* the poll rejected with its timeout error
TimedOut == poll.pc = "rejected" /\ poll.error = TimeoutError(poll.api)

\* C11 as stated: when every check returns PENDING the poll has rejected no
\* later than one wait interval after timeoutMs has elapsed.
C11_RejectsWithinOneWait ==
    (poll.pc = "rejected" /\ AllPending)
        => time - poll.start <= poll.timeout + LastWait(poll)

\* C11: when every check returns PENDING, poll eventually rejects with its
\* timeout error, at the first check that returns after timeoutMs has
\* elapsed; that check is sent no later than one wait interval after
\* timeoutMs, and the rejection follows when its request is answered.
C11_Terminates ==
    /\ [](AllPending /\ poll.pc = "rejected"
             => /\ TimedOut
                /\ time - poll.start > poll.timeout
                /\ poll.sent - poll.start <= poll.timeout + LastWait(poll))
    /\ [](AllPending /\ poll.pc = "waiting" => time - poll.start <= poll.timeout)
    /\ (poll.pc = "checking") ~> TimedOut

\* a poll of PENDING results has timed out, later than timeoutMs plus its
\* last wait
C11_Witness ==
    /\ TimedOut
    /\ AllPending
    /\ poll.checks >= 3
    /\ time - poll.start > poll.timeout + LastWait(poll)

\* C12: poll stops with success on the first check whose status is in the
\* terminal set {SUCCESS/COMPLETED, FAILED, CANCELLED, EXPIRED} and schedules
\* no further check; it goes on polling only on PENDING and PROCESSING.
C12_TerminalDetection ==
    /\ poll.pc \in {"checking", "waiting", "rejected"}
          => \A i \in 1..Len(poll.returned) : poll.returned[i] \in SpecNonTerminal
    /\ poll.pc = "resolved"
          => /\ poll.returned[Len(poll.returned)] \in SpecTerminal
             /\ \A i \in 1..(Len(poll.returned) - 1) :
                   poll.returned[i] \in SpecNonTerminal

\* C13: after each non-terminal result poll sleeps for the current delay and
\* only then multiplies it by 1.5 (capped at 10000 ms): with interval i the
\* waits after the 1st, 2nd, 3rd ... non-terminal result are min(i, 10000),
\* min(1.5 i, 10000), min(2.25 i, 10000), ... (2000, 3000, 4500 by default).
C13_SleepThenMultiply ==
    poll.failed = 0
        => /\ Len(poll.waits) >= 1 => poll.waits[1] = Min(poll.interval, MAX_DELAY)
           /\ \A k \in 1..(Len(poll.waits) - 1) :
                 poll.waits[k + 1] = Min((poll.waits[k] * 3) \div 2, MAX_DELAY)

(***************************************************************************)
(* The poller when status requests fail: some checks are answered PENDING, *)
(* and from the first failure on every request fails.  Timers fire and     *)
(* every request ends (fetch aborts it after the client's timeout), so the *)
(* steps are weakly fair.                                                  *)
(***************************************************************************)
\* more failures than a poll retries before the timeout ends it
MaxFailingChecks == 64

\* the status request is answered PENDING, no request has failed yet
PendingBeforeFailure ==
    /\ poll.failed = 0
    /\ PendingReturns

\* the status request fails
RequestFails ==
    /\ poll.pc = "checking"
    /\ poll.failed < MaxFailingChecks
    /\ \E error \in RequestErrors, latency \in Latencies :
          /\ time' = time + latency
          /\ poll' = check_failed(poll, error, time')
    /\ UNCHANGED <<now, call, hookVars, shop, sdk, streamVars>>

NextPollFailing ==
    \/ PollCall
    \/ PendingBeforeFailure
    \/ RequestFails
    \/ TimerFires

SpecPollFailing ==
    InitPoll /\ [][NextPollFailing]_vars
             /\ WF_vars(PendingBeforeFailure) /\ WF_vars(RequestFails)
             /\ WF_vars(TimerFires)

\* C14: a status check that fails does not reject the poll while the elapsed
\* time is within timeoutMs: it is retried after a wait of the current
\* delay; the elapsed time is counted from the start of the poll, as for
\* successful checks, so a failing check after timeoutMs rejects, and an
\* unbroken run of failing checks ends the poll.
C14_ErrorsShareTheBudget ==
    /\ [][(poll.pc = "checking" /\ poll'.failed = poll.failed + 1)
             => IF time' - poll.start > poll.timeout
                THEN poll'.pc = "rejected" /\ poll'.error \in RequestErrors
                ELSE /\ poll'.pc = "waiting"
                     /\ poll'.due = time' + poll.delay
                     /\ poll'.delay = poll.delay]_vars
    /\ (poll.pc = "checking" /\ poll.failed > 0) ~> (poll.pc = "rejected")

\* after PENDING answers, a run of failures was retried and then ended the
\* poll
C14_Witness ==
    /\ poll.pc = "rejected"
    /\ poll.error \in RequestErrors
    /\ Len(poll.returned) >= 1
    /\ poll.failed >= 2

\* C15: whenever poll ends because the deadline passed, after a non-terminal
\* status or after a network error, it rejects with its dedicated timeout
\* error, which is none of the errors of a status request, and it does not
\* resolve: a timeout is never reported as a FAILED status.
C15_TimeoutIsDistinct ==
    (poll.pc = "rejected" /\ time - poll.start > poll.timeout)
        => /\ poll.error = TimeoutError(poll.api)
           /\ poll.error \notin RequestErrors
           /\ poll.result = NoSnapshot

(***************************************************************************)
(* The merchant's side of the webhook: the stored payments and orders, and *)
(* what a handler does with a verified, well-formed event.  Three handlers *)
(* are in the repository: the POST of the integration standard, the same   *)
(* POST with the standard's idempotence rule as its step 2, and the POST   *)
(* of the Next.js template, whose database calls are left as comments.     *)
(* The checkout return page is the client component of the template.       *)
(***************************************************************************)
Handlers == {"standard", "standard rule", "template"}

\* WebhookPayload.event
Events == {"payment.success", "payment.failed", "payment.cancelled", "payment.expired"}

\* the status an event reports, as the handlers store it
EventStatus(event) ==
    CASE event = "payment.success" -> "success"
      [] event = "payment.failed" -> "failed"
      [] event = "payment.cancelled" -> "cancelled"
      [] event = "payment.expired" -> "expired"

\* the record of a delivery: what was stored before it and what was decided
Delivered(before, after, event, id, decision) ==
    [after EXCEPT !.delivery = [event |-> event, id |-> id,
                                before |-> before.payments[id], decision |-> decision]]

\* step 3 of the standard's POST: the switch and its database updates
StandardSwitch(s, event, id) ==
    CASE event = "payment.success" ->
            [s EXCEPT !.payments[id] = "success", !.orders[id] = "paid"]
      [] event = "payment.failed" -> [s EXCEPT !.payments[id] = "failed"]
      [] OTHER -> s

\* the standard's POST, from step 2 on
StandardPOST(s, event, id) ==
    IF s.payments[id] = "success"
    THEN Delivered(s, s, event, id, "SKIP")
    ELSE Delivered(s, StandardSwitch(s, event, id), event, id, "PROCESS")

\* the standard's POST with the idempotence rule of the standard as step 2
IdempotenceRulePOST(s, event, id) ==
    IF s.payments[id] \in {"success", "failed", "cancelled"}
    THEN Delivered(s, s, event, id, "SKIP")
    ELSE Delivered(s, StandardSwitch(s, event, id), event, id, "PROCESS")

\* the template's POST, from its idempotence TODO on: every event reaches
\* the switch, which logs it and updates nothing
TemplatePOST(s, event, id) == Delivered(s, s, event, id, "PROCESS")

Handle(s, event, id) ==
    CASE s.handler = "standard" -> StandardPOST(s, event, id)
      [] s.handler = "standard rule" -> IdempotenceRulePOST(s, event, id)
      [] s.handler = "template" -> TemplatePOST(s, event, id)

\* the merchant deploys one of the handlers; a payment may be recorded as
\* pending when it is created
InitShop ==
    /\ now = Epoch
    /\ call = NoCall
    /\ env = NoSecret
    /\ request = NoRequest
    /\ response = NoResponse
    /\ processed = NoEvent
    /\ time = 0
    /\ poll = NoPoll
    /\ sdk = NoSdkCall
    /\ http = NoHttp
    /\ polls = NoPolls
    /\ stream = NoStream
    /\ \E handler \in Handlers, recorded \in [TxIds -> {"absent", "pending"}] :
          shop = [NoShop EXCEPT !.handler = handler, !.payments = recorded]

\* the Gateway delivers an event, any event for any payment, in any order
\* and any number of times
Deliver ==
    /\ \E event \in Events, id \in TxIds : shop' = Handle(shop, event, id)
    /\ UNCHANGED <<now, call, hookVars, pollVars, sdk, streamVars>>

\* the statuses the return page shows for an answered status request
PageStatuses == {"PENDING", "SUCCESS", "FAILED", "EXPIRED"}

\* what fetch('/api/payments/status?id=...') gives: it throws, or answers
\* { success: false }, or { success: true, data: { status } }
StatusAnswers ==
    {[threw |-> TRUE, success |-> FALSE, status |-> "undefined"],
     [threw |-> FALSE, success |-> FALSE, status |-> "undefined"]}
    \cup {[threw |-> FALSE, success |-> TRUE, status |-> st] : st \in PageStatuses}

\* the effect of PaymentReturnContent: without a payment id the page shows
\* an error, with one it calls checkStatus, which sends the request
useEffect(s, paymentId) ==
    IF paymentId = "none"
    THEN [s EXCEPT !.page.status = "error"]
    ELSE [s EXCEPT !.page.paymentId = paymentId, !.page.fetching = TRUE]

\* checkStatus marking the order paid when the Gateway answers SUCCESS
checkStatus_marksPaid(s, answer) ==
    IF answer.threw \/ ~answer.success
    THEN [s EXCEPT !.page.status = "error", !.page.fetching = FALSE]
    ELSE [s EXCEPT !.page.status = answer.status, !.page.fetching = FALSE,
                   !.page.timer = (answer.status = "PENDING"),
                   !.orders[s.page.paymentId] =
                       IF answer.status = "SUCCESS" THEN "paid" ELSE @]

\* checkStatus, from the answer of its request on
checkStatus(s, answer) ==
    IF answer.threw \/ ~answer.success
    THEN [s EXCEPT !.page.status = "error", !.page.fetching = FALSE]
    ELSE [s EXCEPT !.page.status = answer.status, !.page.fetching = FALSE,
                   !.page.timer = (answer.status = "PENDING")]

\* the customer comes back from the checkout: the return page mounts
PageOpens ==
    /\ shop.page = NoPage
    /\ \E paymentId \in TxIds \cup {"none"} : shop' = useEffect(shop, paymentId)
    /\ UNCHANGED <<now, call, hookVars, pollVars, sdk, streamVars>>

\* the status request of the page is answered
StatusAnswered ==
    /\ shop.page.fetching
    /\ \E answer \in StatusAnswers : shop' = checkStatus(shop, answer)
    /\ UNCHANGED <<now, call, hookVars, pollVars, sdk, streamVars>>

\* setTimeout(checkStatus, 3000) fires: the page asks again
PageTimerFires ==
    /\ shop.page.timer
    /\ shop' = [shop EXCEPT !.page.timer = FALSE, !.page.fetching = TRUE]
    /\ UNCHANGED <<now, call, hookVars, pollVars, sdk, streamVars>>

NextShop ==
    \/ Deliver
    \/ PageOpens
    \/ StatusAnswered
    \/ PageTimerFires

SpecShop == InitShop /\ [][NextShop]_vars

(***************************************************************************)
(* Properties of the merchant's side.                                      *)
(***************************************************************************)
\* the terminal statuses of the specification, as the handlers store them
StoredTerminal == {"success", "failed", "cancelled", "expired"}

\* the decision of the specification's Idempotency Guard
GuardDecision(before, event) ==
    IF before \notin StoredTerminal THEN "PROCESS"
    ELSE IF before = EventStatus(event) THEN "SKIP"
    ELSE "ANOMALY"

\* C16: for an incoming event and the stored record of its operation id the
\* outcome is PROCESS if the record is absent or non-terminal, SKIP if it is
\* terminal with the same status and ANOMALY if it is terminal with another
\* status; so the same event delivered twice gives PROCESS, then SKIP.
C16_IdempotencyDecision ==
    shop.delivery.decision # "none"
        => shop.delivery.decision = GuardDecision(shop.delivery.before, shop.delivery.event)

\* C17: terminal states are absorbing: for every operation id and every
\* sequence of deliveries, once the stored status is terminal (success,
\* failed, cancelled, expired) no later event changes it.
C17_TerminalIsAbsorbing ==
    [][\A id \in TxIds :
          shop.payments[id] \in StoredTerminal
              => shop'.payments[id] = shop.payments[id]]_vars

\* C18: the return page has no transition authority: it only reads the
\* status, asking again while it is PENDING, and writes no order and no
\* payment state; an order becomes paid only in the payment.success branch
\* of the webhook handler.
C18_ReturnPageWritesNothing ==
    [][/\ shop'.page # shop.page
            => /\ shop'.orders = shop.orders
               /\ shop'.payments = shop.payments
       /\ shop.page.fetching /\ ~shop'.page.fetching
            => shop'.page.timer = (shop'.page.status = "PENDING")
       /\ \A id \in TxIds :
             shop'.orders[id] # shop.orders[id]
                => /\ shop'.orders[id] = "paid"
                   /\ shop'.page = shop.page
                   /\ shop'.delivery.event = "payment.success"
                   /\ shop'.delivery.id = id
                   /\ shop'.delivery.decision = "PROCESS"]_vars

\* the page shows SUCCESS for a payment whose order is not paid: the webhook
\* has not been delivered yet
C18_Witness ==
    /\ shop.page.status = "SUCCESS"
    /\ shop.page.paymentId \in TxIds
    /\ shop.orders[shop.page.paymentId] = "pending"
    /\ \E id \in TxIds : shop.orders[id] = "paid"

(***************************************************************************)
(* The capability matrix (PHP Capabilities, TypeScript capabilities) and   *)
(* the creation of a payout (PHP Payout::create, TypeScript                *)
(* PayoutsAPI.create).  A matrix is a record of records, so that a missing *)
(* method or a missing capability is a key that is not in its domain.      *)
(***************************************************************************)
PAYMENT_METHODS ==
    {"ORANGE_MONEY", "WAVE", "MOOV", "CARD", "VISA", "MASTERCARD", "GIM_UEMOA"}

CAPABILITY_TYPES ==
    {"payments", "payment_links", "qr_code", "payouts", "withdrawals", "opr",
     "splits", "customer_portal"}

\* Capabilities::MATRIX
MATRIX ==
    [ORANGE_MONEY |->
        [payments |-> TRUE, payment_links |-> TRUE, qr_code |-> FALSE, payouts |-> TRUE,
         withdrawals |-> TRUE, opr |-> TRUE, splits |-> FALSE, customer_portal |-> FALSE],
     WAVE |->
        [payments |-> TRUE, payment_links |-> TRUE, qr_code |-> TRUE, payouts |-> TRUE,
         withdrawals |-> TRUE, opr |-> TRUE, splits |-> FALSE, customer_portal |-> FALSE],
     MOOV |->
        [payments |-> TRUE, payment_links |-> TRUE, qr_code |-> FALSE, payouts |-> TRUE,
         withdrawals |-> TRUE, opr |-> TRUE, splits |-> FALSE, customer_portal |-> FALSE],
     CARD |->
        [payments |-> TRUE, payment_links |-> TRUE, qr_code |-> FALSE, payouts |-> FALSE,
         withdrawals |-> TRUE, opr |-> FALSE, splits |-> TRUE, customer_portal |-> TRUE],
     VISA |->
        [payments |-> TRUE, payment_links |-> TRUE, qr_code |-> FALSE, payouts |-> FALSE,
         withdrawals |-> TRUE, opr |-> FALSE, splits |-> TRUE, customer_portal |-> TRUE],
     MASTERCARD |->
        [payments |-> TRUE, payment_links |-> TRUE, qr_code |-> FALSE, payouts |-> FALSE,
         withdrawals |-> TRUE, opr |-> FALSE, splits |-> TRUE, customer_portal |-> TRUE],
     GIM_UEMOA |->
        [payments |-> TRUE, payment_links |-> TRUE, qr_code |-> FALSE, payouts |-> FALSE,
         withdrawals |-> TRUE, opr |-> FALSE, splits |-> FALSE, customer_portal |-> FALSE]]

\* CAPABILITIES of the TypeScript SDK
CAPABILITIES ==
    [ORANGE_MONEY |->
        [payments |-> TRUE, payment_links |-> TRUE, qr_code |-> FALSE, payouts |-> TRUE,
         withdrawals |-> TRUE, opr |-> TRUE, splits |-> FALSE, customer_portal |-> FALSE],
     WAVE |->
        [payments |-> TRUE, payment_links |-> TRUE, qr_code |-> TRUE, payouts |-> TRUE,
         withdrawals |-> TRUE, opr |-> TRUE, splits |-> FALSE, customer_portal |-> FALSE],
     MOOV |->
        [payments |-> TRUE, payment_links |-> TRUE, qr_code |-> FALSE, payouts |-> TRUE,
         withdrawals |-> TRUE, opr |-> TRUE, splits |-> FALSE, customer_portal |-> FALSE],
     CARD |->
        [payments |-> TRUE, payment_links |-> TRUE, qr_code |-> FALSE, payouts |-> FALSE,
         withdrawals |-> TRUE, opr |-> FALSE, splits |-> TRUE, customer_portal |-> TRUE],
     VISA |->
        [payments |-> TRUE, payment_links |-> TRUE, qr_code |-> FALSE, payouts |-> FALSE,
         withdrawals |-> TRUE, opr |-> FALSE, splits |-> TRUE, customer_portal |-> TRUE],
     MASTERCARD |->
        [payments |-> TRUE, payment_links |-> TRUE, qr_code |-> FALSE, payouts |-> FALSE,
         withdrawals |-> TRUE, opr |-> FALSE, splits |-> TRUE, customer_portal |-> TRUE],
     GIM_UEMOA |->
        [payments |-> TRUE, payment_links |-> TRUE, qr_code |-> FALSE, payouts |-> FALSE,
         withdrawals |-> TRUE, opr |-> FALSE, splits |-> FALSE, customer_portal |-> FALSE]]

\* the value of a lookup, as the caller sees it
BoolResult(b) == IF b THEN "true" ELSE "false"

\* matrix[method][capability], undefined (null) when a key is missing
Entry(matrix, method, capability) ==
    IF method \in DOMAIN matrix /\ capability \in DOMAIN matrix[method]
    THEN BoolResult(matrix[method][capability])
    ELSE "undefined"

\* a lookup that answers false whatever the matrix holds
Capabilities_has_alwaysFalse(method, capability) == "false"

\* Capabilities::has: self::MATRIX[$method][$capability] ?? false
Capabilities_has(method, capability) ==
    IF Entry(MATRIX, method, capability) = "undefined"
    THEN "false"
    ELSE Entry(MATRIX, method, capability)

\* hasCapability: false without the method, else caps[capability] === true
hasCapability(method, capability) ==
    IF method \notin DOMAIN CAPABILITIES
    THEN "false"
    ELSE BoolResult(Entry(CAPABILITIES, method, capability) = "true")

\* the methods and capabilities a caller passes: the declared ones, and
\* others
MethodInputs == PAYMENT_METHODS \cup {"INTOUCH", ""}

CapabilityInputs == CAPABILITY_TYPES \cup {"refunds"}

Lookup(op, method, capability, result) ==
    [NoSdkCall EXCEPT !.op = op, !.method = method, !.capability = capability,
                      !.result = result]

MIN_AMOUNT == 100

MAX_AMOUNT == 5000000

\* an error thrown: its class, its message, and the methods and
\* capabilities its message names
SdkError(class, message, names) == [class |-> class, message |-> message, names |-> names]

\* the parameters of a creation: the payment method, the amount, the phone
\* number of the customer or recipient, the merchant's order id and return
\* URL ("" where one is left out)
CreateParams(provider, amount, phone, orderId, returnUrl) ==
    [provider |-> provider, amount |-> amount, phone |-> phone, orderId |-> orderId,
     returnUrl |-> returnUrl]

\* the outcome of a creation: an error thrown before any request, or the
\* POST sent to the Gateway, with the X-Idempotency-Key header it carries
\* ("" when it carries none)
CreateThrows(op, params, error) ==
    [NoSdkCall EXCEPT !.op = op, !.method = params.provider, !.capability = "payouts",
                      !.amount = params.amount, !.phone = params.phone,
                      !.orderId = params.orderId, !.result = "throws", !.error = error]

CreateSends(op, params, idempotencyKey) ==
    [NoSdkCall EXCEPT !.op = op, !.method = params.provider, !.capability = "payouts",
                      !.amount = params.amount, !.phone = params.phone,
                      !.orderId = params.orderId, !.result = "sent", !.sent = 1,
                      !.idempotencyKey = idempotencyKey]

\* Payout::validateRequired: !isset($data[$field]) || empty($data[$field])
validateRequired(params) ==
    IF params.amount = 0 THEN "amount"
    ELSE IF params.provider = "" THEN "provider"
    ELSE IF params.phone = "" THEN "recipient_phone"
    ELSE "none"

validProviders == {"ORANGE_MONEY", "WAVE", "MOOV"}

\* Payout::create of the PHP SDK
Payout_create(params) ==
    LET op == "Payout::create" IN
    IF validateRequired(params) # "none"
    THEN CreateThrows(op, params,
            SdkError("InvalidArgumentException", "Le champ est requis",
                     {validateRequired(params)}))
    ELSE IF params.provider \notin validProviders
    THEN CreateThrows(op, params,
            SdkError("InvalidArgumentException",
                     "Provider invalide. Utilisez: ORANGE_MONEY, WAVE, MOOV",
                     validProviders))
    ELSE IF params.amount < MIN_AMOUNT
    THEN CreateThrows(op, params,
            SdkError("InvalidArgumentException", "Le montant minimum est de 100 FCFA", {}))
    ELSE IF params.amount > MAX_AMOUNT
    THEN CreateThrows(op, params,
            SdkError("InvalidArgumentException",
                     "Le montant maximum est de 5,000,000 FCFA", {}))
    ELSE CreateSends(op, params, "")

\* PayoutsAPI.create of the TypeScript SDK
PayoutsAPI_create(params) ==
    LET op == "PayoutsAPI.create" IN
    IF params.amount < MIN_AMOUNT
    THEN CreateThrows(op, params,
            SdkError("SahelPayError", "Le montant minimum est de 100 FCFA", {}))
    ELSE IF params.amount > MAX_AMOUNT
    THEN CreateThrows(op, params,
            SdkError("SahelPayError", "Le montant maximum est de 5,000,000 FCFA", {}))
    ELSE CreateSends(op, params, "")

\* SahelPayMerchant.createPayment of the merchant SDK
createPayment(params) ==
    LET op == "SahelPayMerchant.createPayment" IN
    IF params.amount < MIN_AMOUNT
    THEN CreateThrows(op, params, SdkError("INVALID_AMOUNT", "Montant minimum: 100 FCFA", {}))
    ELSE IF params.amount > MAX_AMOUNT
    THEN CreateThrows(op, params,
            SdkError("INVALID_AMOUNT", "Montant maximum: 5,000,000 FCFA", {}))
    ELSE IF params.orderId = ""
    THEN CreateThrows(op, params, SdkError("MISSING_ORDER_ID", "orderId requis", {}))
    ELSE IF params.phone = ""
    THEN CreateThrows(op, params, SdkError("MISSING_PHONE", "customerPhone requis", {}))
    ELSE IF params.returnUrl = ""
    THEN CreateThrows(op, params, SdkError("MISSING_RETURN_URL", "returnUrl requis", {}))
    ELSE CreateSends(op, params, "merchant-order-" \o params.orderId)

\* the providers PaymentsAPI.create takes for a card payment
CardProviders == {"CARD", "CINETPAY", "GIM_UEMOA", "VISA", "MASTERCARD"}

\* PaymentsAPI.create of the TypeScript SDK, payment_method left out
PaymentsAPI_create(params, customerName, customerEmail) ==
    LET op == "PaymentsAPI.create"
        isCard == params.provider \in CardProviders
    IN  IF isCard /\ customerName = ""
        THEN CreateThrows(op, params,
                SdkError("VALIDATION_ERROR", "CinetPay CREDIT_CARD requires customerName", {}))
        ELSE IF isCard /\ customerEmail = ""
        THEN CreateThrows(op, params,
                SdkError("VALIDATION_ERROR", "CinetPay CREDIT_CARD requires customerEmail", {}))
        ELSE IF isCard /\ params.phone = ""
        THEN CreateThrows(op, params,
                SdkError("VALIDATION_ERROR", "CinetPay CREDIT_CARD requires customerPhone", {}))
        ELSE CreateSends(op, params, "")

\* the phone numbers passed: one, and none
Phones == {"+22370000000", ""}

\* the amounts of the payouts: none, and the two limits with a neighbour
Amounts == {0, MIN_AMOUNT - 1, MIN_AMOUNT, MAX_AMOUNT, MAX_AMOUNT + 1}

InitSdk ==
    /\ now = Epoch
    /\ call = NoCall
    /\ env = NoSecret
    /\ request = NoRequest
    /\ response = NoResponse
    /\ processed = NoEvent
    /\ time = 0
    /\ poll = NoPoll
    /\ shop = NoShop
    /\ http = NoHttp
    /\ polls = NoPolls
    /\ stream = NoStream
    /\ sdk = NoSdkCall

HasCall ==
    /\ \E method \in MethodInputs, capability \in CapabilityInputs :
          sdk' = Lookup("Capabilities::has", method, capability,
                        Capabilities_has(method, capability))
    /\ UNCHANGED <<now, call, hookVars, pollVars, shop, streamVars>>

HasCapabilityCall ==
    /\ \E method \in MethodInputs, capability \in CapabilityInputs :
          sdk' = Lookup("hasCapability", method, capability,
                        hasCapability(method, capability))
    /\ UNCHANGED <<now, call, hookVars, pollVars, shop, streamVars>>

PayoutCreateCall ==
    /\ \E provider \in MethodInputs, amount \in Amounts, phone \in Phones :
          sdk' = Payout_create(CreateParams(provider, amount, phone, "", ""))
    /\ UNCHANGED <<now, call, hookVars, pollVars, shop, streamVars>>

PayoutsAPICreateCall ==
    /\ \E provider \in MethodInputs, amount \in Amounts, phone \in Phones :
          sdk' = PayoutsAPI_create(CreateParams(provider, amount, phone, "", ""))
    /\ UNCHANGED <<now, call, hookVars, pollVars, shop, streamVars>>

\* the order ids, return URLs, names and e-mail addresses passed
OrderIds == {"order_1", "order_2", ""}

ReturnUrls == {"https://myapp.com/checkout/return", ""}

Names == {"Awa", ""}

Emails == {"awa@example.com", ""}

CreatePaymentCall ==
    /\ \E amount \in Amounts, phone \in Phones, orderId \in OrderIds,
          returnUrl \in ReturnUrls :
          sdk' = createPayment(CreateParams("", amount, phone, orderId, returnUrl))
    /\ UNCHANGED <<now, call, hookVars, pollVars, shop, streamVars>>

PaymentsAPICreateCall ==
    /\ \E provider \in MethodInputs, amount \in Amounts, phone \in Phones,
          customerName \in Names, customerEmail \in Emails :
          sdk' = PaymentsAPI_create(CreateParams(provider, amount, phone, "", ""),
                                    customerName, customerEmail)
    /\ UNCHANGED <<now, call, hookVars, pollVars, shop, streamVars>>

NextSdk ==
    \/ CreatePaymentCall
    \/ PaymentsAPICreateCall
    \/ HasCall
    \/ HasCapabilityCall
    \/ PayoutCreateCall
    \/ PayoutsAPICreateCall

SpecSdk == InitSdk /\ [][NextSdk]_vars

(***************************************************************************)
(* Properties of the capability matrix and of the payout creation.         *)
(***************************************************************************)
\* the matrix a lookup reads
MatrixOf(op) == IF op = "Capabilities::has" THEN MATRIX ELSE CAPABILITIES

\* C19: for every declared payment method and every declared capability the
\* matrix holds an explicit boolean, and the lookup (Capabilities::has,
\* hasCapability) returns that boolean, never an undefined value.
C19_MatrixIsComplete ==
    (/\ sdk.op \in {"Capabilities::has", "hasCapability"}
     /\ sdk.method \in PAYMENT_METHODS
     /\ sdk.capability \in CAPABILITY_TYPES)
        => /\ sdk.method \in DOMAIN MatrixOf(sdk.op)
           /\ sdk.capability \in DOMAIN MatrixOf(sdk.op)[sdk.method]
           /\ MatrixOf(sdk.op)[sdk.method][sdk.capability] \in BOOLEAN
           /\ sdk.result = BoolResult(MatrixOf(sdk.op)[sdk.method][sdk.capability])

\* a lookup of a capability a method has
C19_Witness ==
    /\ sdk.op = "Capabilities::has"
    /\ sdk.method = "WAVE"
    /\ sdk.capability = "qr_code"
    /\ sdk.result = "true"

\* C20: creating a payout for a payment method whose payouts capability is
\* false (CARD, VISA, MASTERCARD, GIM_UEMOA) fails with an error naming the
\* method and the capability, before any HTTP request is sent.
C20_PayoutFailsFast ==
    (/\ sdk.op \in {"Payout::create", "PayoutsAPI.create"}
     /\ sdk.method \in PAYMENT_METHODS
     /\ ~MATRIX[sdk.method].payouts)
        => /\ sdk.sent = 0
           /\ sdk.result = "throws"
           /\ {sdk.method, "payouts"} \subseteq sdk.error.names

\* C21: for every create operation (SahelPayMerchant.createPayment,
\* PaymentsAPI.create, PayoutsAPI.create) an amount below 100 or above
\* 5,000,000 or a missing phone number is rejected locally and no HTTP
\* request is issued; the bounds 100 and 5,000,000 themselves are accepted.
C21_ValidationFailsFast ==
    LET JsCreates ==
            {"SahelPayMerchant.createPayment", "PaymentsAPI.create", "PayoutsAPI.create"}
        AmountMessages ==
            {"Montant minimum: 100 FCFA", "Montant maximum: 5,000,000 FCFA",
             "Le montant minimum est de 100 FCFA",
             "Le montant maximum est de 5,000,000 FCFA"}
    IN  sdk.op \in JsCreates
            => /\ (sdk.amount < MIN_AMOUNT \/ sdk.amount > MAX_AMOUNT \/ sdk.phone = "")
                     => (sdk.result = "throws" /\ sdk.sent = 0)
               /\ (sdk.amount \in {MIN_AMOUNT, MAX_AMOUNT} /\ sdk.result = "throws")
                     => sdk.error.message \notin AmountMessages

\* C22: every request that creates a payment or a payout carries an
\* idempotency key, and the key is the same on every call for the same order.
C22_CreateCarriesIdempotencyKey ==
    sdk.sent = 1 => sdk.idempotencyKey # ""

(***************************************************************************)
(* The HTTP request of the SDKs: SahelPayClient.request (index.ts) and     *)
(* SahelPayMerchant.request (merchant.ts).                                 *)
(*                                                                         *)
(* A call arms an abort timer, awaits fetch, clears the timer, awaits the  *)
(* body and returns the JSON or throws.  cause logs what ended the fetch:  *)
(* a response, the abort of the timer or a failure of the transport.       *)
(***************************************************************************)
REQUEST_TIMEOUT == 30000

Clients == {"SahelPayClient", "SahelPayMerchant"}

\* config.timeout: left out, and one below and one above the default
ConfigTimeouts == {0, 1000, 60000}

\* the method and path of the calls
Requests == {<<"POST", "/v1/payments">>, <<"GET", "/v1/payments/pay_1">>}

\* response.status
HttpStatuses == {200, 201, 400, 401, 408, 500}

\* the body of a response: JSON with data.status, JSON with error.code,
\* JSON with neither, and a body that is not JSON
ResponseBodies ==
    {[json |-> TRUE, status |-> "SUCCESS", code |-> ""],
     [json |-> TRUE, status |-> "FAILED", code |-> ""],
     [json |-> TRUE, status |-> "", code |-> "INVALID_AMOUNT"],
     [json |-> TRUE, status |-> "", code |-> ""],
     [json |-> FALSE, status |-> "", code |-> ""]}

HttpError(name, code, statusCode) ==
    [name |-> name, code |-> code, statusCode |-> statusCode]

AbortError == HttpError("AbortError", "", 0)

FetchFailed == HttpError("TypeError", "", 0)

JsonSyntaxError == HttpError("SyntaxError", "", 0)

\* json.error?.code || 'UNKNOWN_ERROR' ('API_ERROR' in the merchant SDK)
ApiErrorCode(client, code) ==
    IF code # "" THEN code
    ELSE IF client = "SahelPayMerchant" THEN "API_ERROR" ELSE "UNKNOWN_ERROR"

\* request() up to await fetch(url, options): the abort timer is set
request_start(client, config, method, path) ==
    [NoHttp EXCEPT !.client = client, !.pc = "fetching", !.method = method,
                   !.path = path, !.config = config,
                   !.timeout = JsOr(config, REQUEST_TIMEOUT), !.timer = "armed"]

\* a catch block that rethrows whatever it caught
request_catch_rethrows(h, error) ==
    [h EXCEPT !.pc = "thrown", !.error = error,
              !.timer = IF @ = "armed" THEN "cleared" ELSE @]

\* the catch block of request()
request_catch(h, error) ==
    LET q == [h EXCEPT !.pc = "thrown", !.timer = IF @ = "armed" THEN "cleared" ELSE @]
    IN  IF h.client = "SahelPayMerchant" /\ error.name = "SahelPayError"
        THEN [q EXCEPT !.error = error]
        ELSE IF error.name = "AbortError"
        THEN [q EXCEPT !.error = HttpError("SahelPayError", "TIMEOUT", 408)]
        ELSE IF h.client = "SahelPayMerchant"
        THEN [q EXCEPT !.error = HttpError("SahelPayError", "NETWORK_ERROR", 0)]
        ELSE [q EXCEPT !.error = error]

\* fetch resolves: clearTimeout(timeoutId), then response.json() is awaited
fetch_resolved(h, status, body, elapsed) ==
    [h EXCEPT !.pc = "reading", !.timer = "cleared", !.cause = "response",
              !.status = status, !.body = body, !.elapsed = elapsed]

\* the body has arrived: response.json(), the test of response.ok, return json
body_read(h) ==
    IF ~h.body.json
    THEN request_catch(h, JsonSyntaxError)
    ELSE IF h.status \notin 200..299
    THEN request_catch(h, HttpError("SahelPayError",
                                    ApiErrorCode(h.client, h.body.code), h.status))
    ELSE [h EXCEPT !.pc = "returned", !.result = h.body.status]

\* the timer fires: controller.abort() makes fetch reject with an AbortError
abort_fired(h) ==
    request_catch([h EXCEPT !.timer = "fired", !.cause = "abort",
                            !.elapsed = h.timeout], AbortError)

\* fetch rejects for a failure of the transport (DNS, connection refused, reset)
fetch_rejected(h, elapsed) ==
    request_catch([h EXCEPT !.cause = "transport", !.elapsed = elapsed], FetchFailed)

InitHttp ==
    /\ now = Epoch
    /\ call = NoCall
    /\ env = NoSecret
    /\ request = NoRequest
    /\ response = NoResponse
    /\ processed = NoEvent
    /\ time = 0
    /\ poll = NoPoll
    /\ shop = NoShop
    /\ sdk = NoSdkCall
    /\ http = NoHttp
    /\ polls = NoPolls
    /\ stream = NoStream

\* a method of the SDK calls request()
RequestCall ==
    /\ http.pc \in {"idle", "returned", "thrown"}
    /\ \E client \in Clients, config \in ConfigTimeouts, r \in Requests :
          http' = request_start(client, config, r[1], r[2])
    /\ UNCHANGED <<now, call, hookVars, pollVars, shop, sdk, polls, stream>>

\* the response arrives before the timer fires
FetchResolves ==
    /\ http.pc = "fetching"
    /\ \E status \in HttpStatuses, body \in ResponseBodies,
          elapsed \in {MaxLatency, http.timeout - 1} :
          http' = fetch_resolved(http, status, body, elapsed)
    /\ UNCHANGED <<now, call, hookVars, pollVars, shop, sdk, polls, stream>>

\* the body of the response has been read
BodyRead ==
    /\ http.pc = "reading"
    /\ http' = body_read(http)
    /\ UNCHANGED <<now, call, hookVars, pollVars, shop, sdk, polls, stream>>

\* the timer set by setTimeout(() => controller.abort(), this.timeout) fires
AbortTimerFires ==
    /\ http.pc = "fetching"
    /\ http.timer = "armed"
    /\ http' = abort_fired(http)
    /\ UNCHANGED <<now, call, hookVars, pollVars, shop, sdk, polls, stream>>

\* the transport fails before the timer fires
FetchRejects ==
    /\ http.pc = "fetching"
    /\ \E elapsed \in {MaxLatency, http.timeout - 1} :
          http' = fetch_rejected(http, elapsed)
    /\ UNCHANGED <<now, call, hookVars, pollVars, shop, sdk, polls, stream>>

NextHttp ==
    \/ RequestCall
    \/ FetchResolves
    \/ BodyRead
    \/ AbortTimerFires
    \/ FetchRejects

SpecHttp == InitHttp /\ [][NextHttp]_vars

\* C23: every request is sent with its abort timer armed, for config.timeout
\* or 30000 ms when it is left out; a request whose timer fires before the
\* response throws SahelPayError TIMEOUT with status 408, a request whose
\* transport fails throws a network error (SahelPayError NETWORK_ERROR in the
\* merchant SDK, the error of fetch in SahelPayClient), and neither returns
\* data, so neither is reported as a FAILED status of the operation.
C23_TimeoutIsNotBusinessFailure ==
    /\ http.pc # "idle"
          => /\ http.timer # "none"
             /\ http.timeout = (IF http.config = 0 THEN REQUEST_TIMEOUT ELSE http.config)
    /\ http.pc = "fetching" => http.timer = "armed"
    /\ http.cause = "abort"
          => /\ http.pc = "thrown"
             /\ http.error = HttpError("SahelPayError", "TIMEOUT", 408)
             /\ http.result = "none"
    /\ http.cause = "transport"
          => /\ http.pc = "thrown"
             /\ \/ http.error = HttpError("SahelPayError", "NETWORK_ERROR", 0)
                \/ http.error = FetchFailed
             /\ http.result = "none"

\* a request with the default timeout was aborted by its timer after 30000 ms
C23_Witness ==
    /\ http.cause = "abort"
    /\ http.config = 0
    /\ http.elapsed = REQUEST_TIMEOUT
    /\ http.pc = "thrown"
    /\ http.error.code = "TIMEOUT"

(***************************************************************************)
(* Polls running at once on one client: sahelpay.payments.poll and         *)
(* sahelpay.payouts.poll called while the other is still running.  The     *)
(* polls share the clock and the event loop; start, timeout and delay are  *)
(* locals of each call and check is a closure over them.                   *)
(***************************************************************************)
\* the most checks one of the concurrent polls makes in the model
MaxConcurrentChecks == 2

\* the API each of the polls is called on
ApiOf(i) == IF i = 1 THEN "payments" ELSE "payouts"

\* what the checks of the concurrent polls return: not settled, and settled
ConcurrentStatuses == {"PENDING", "FAILED"}

\* how they fail
ConcurrentErrors == {"TypeError: fetch failed"}

\* a closure that reads delay from a field the polls share
closure_sharedDelay(ps, i) ==
    [ps[i] EXCEPT !.delay = ps[CHOOSE j \in Pollers : j # i].delay]

\* the locals of call i of poll(): const start, const timeout, let delay
closure(ps, i) == ps[i]

InitConcurrent ==
    /\ now = Epoch
    /\ call = NoCall
    /\ env = NoSecret
    /\ request = NoRequest
    /\ response = NoResponse
    /\ processed = NoEvent
    /\ time = 0
    /\ poll = NoPoll
    /\ shop = NoShop
    /\ sdk = NoSdkCall
    /\ http = NoHttp
    /\ polls = NoPolls
    /\ stream = NoStream

\* poll() is called while the other poll may be running
ConcurrentPollCall(i) ==
    /\ polls[i].pc = "idle"
    /\ \E interval \in Intervals, timeout \in Timeouts :
          polls' = [polls EXCEPT ![i] = poll_start(ApiOf(i), interval, timeout, TRUE, time)]
    /\ UNCHANGED <<now, call, hookVars, time, poll, shop, sdk, http, stream>>

\* the status request of poll i is answered
ConcurrentStatusReturns(i) ==
    /\ polls[i].pc = "checking"
    /\ polls[i].checks < MaxConcurrentChecks
    /\ \E status \in ConcurrentStatuses :
          /\ time' = time + MaxLatency
          /\ polls' = [polls EXCEPT ![i] = check_returned(closure(polls, i), status, time')]
    /\ UNCHANGED <<now, call, hookVars, poll, shop, sdk, http, stream>>

\* the status request of poll i fails
ConcurrentStatusFails(i) ==
    /\ polls[i].pc = "checking"
    /\ polls[i].checks < MaxConcurrentChecks
    /\ \E error \in ConcurrentErrors :
          /\ time' = time + MaxLatency
          /\ polls' = [polls EXCEPT ![i] = check_failed(closure(polls, i), error, time')]
    /\ UNCHANGED <<now, call, hookVars, poll, shop, sdk, http, stream>>

\* the timer of poll i fires; the event loop runs the timers in the order
\* in which they are due
ConcurrentTimerFires(i) ==
    /\ polls[i].pc = "waiting"
    /\ \A j \in Pollers : polls[j].pc = "waiting" => polls[i].due <= polls[j].due
    /\ time' = IF polls[i].due > time THEN polls[i].due ELSE time
    /\ polls' = [polls EXCEPT ![i] = [closure(polls, i) EXCEPT !.pc = "checking",
                                                              !.sent = time']]
    /\ UNCHANGED <<now, call, hookVars, poll, shop, sdk, http, stream>>

NextConcurrent ==
    \E i \in Pollers :
        \/ ConcurrentPollCall(i)
        \/ ConcurrentStatusReturns(i)
        \/ ConcurrentStatusFails(i)
        \/ ConcurrentTimerFires(i)

SpecConcurrent == InitConcurrent /\ [][NextConcurrent]_vars

\* the steps a poll with closure p takes when it runs alone, from instant
\* t to instant u
AloneSteps(p, t, u) ==
    IF p.pc = "idle"
    THEN {poll_start(api, interval, timeout, TRUE, t) :
              api \in Apis, interval \in Intervals, timeout \in Timeouts}
    ELSE IF p.pc = "checking"
    THEN {check_returned(p, status, u) : status \in Statuses(p.api)}
            \cup {check_failed(p, error, u) : error \in RequestErrors}
    ELSE IF p.pc = "waiting"
    THEN {[p EXCEPT !.pc = "checking", !.sent = u]}
    ELSE {}

C25_WaitNeverExceedsCap ==
    \A k \in 1..Len(poll.waits) : poll.waits[k] <= MAX_DELAY

(***************************************************************************)
(* GatewayEventSource: the SSE stream of gateway configuration events.     *)
(*                                                                         *)
(* stream holds the fields of one object (eventSource, reconnectTimeout,   *)
(* reconnectAttempts, isConnected), the timers setTimeout has pending and  *)
(* a log: the timers set, the timer callbacks run, the EventSource objects *)
(* constructed, and whether the caller's last call was disconnect().       *)
(* An EventSource that was closed delivers no further event.               *)
(***************************************************************************)
\* the most EventSource objects one stream constructs in the model
MaxSources == 4

DEFAULT_RECONNECT_INTERVAL == 5000

MAX_RECONNECT_DELAY == 30000

\* options.reconnectInterval: left out, and one value
ReconnectIntervals == {0, 20000}

\* options.maxReconnectAttempts, when it is given
MaxAttemptsGiven == {0, 1, 2}

RECURSIVE Pow2(_)
\* Math.pow(2, n)
Pow2(n) == IF n = 0 THEN 1 ELSE 2 * Pow2(n - 1)

\* new GatewayEventSource(options); unlimited stands for the Infinity of
\* options.maxReconnectAttempts ?? Infinity
new_GatewayEventSource(reconnectInterval, unlimited, maxReconnectAttempts, browser) ==
    [NoStream EXCEPT !.pc = "constructed", !.browser = browser,
                     !.reconnectInterval = JsOr(reconnectInterval, DEFAULT_RECONNECT_INTERVAL),
                     !.unlimited = unlimited,
                     !.maxReconnectAttempts = maxReconnectAttempts]

\* this.reconnectAttempts < this.maxReconnectAttempts
MayReconnect(s) == s.unlimited \/ s.reconnectAttempts < s.maxReconnectAttempts

\* disconnect()
disconnect(s) ==
    [s EXCEPT !.timers = {t \in @ : t.id # s.reconnectTimeout},
              !.reconnectTimeout = 0,
              !.eventSource = "null",
              !.isConnected = FALSE]

\* connect()
connect(s) ==
    LET d == IF s.eventSource # "null" THEN disconnect(s) ELSE s
    IN  IF s.browser
        THEN [d EXCEPT !.eventSource = "connecting", !.sources = @ + 1]
        ELSE d

\* eventSource.onopen
onopen(s) ==
    [s EXCEPT !.eventSource = "open", !.isConnected = TRUE, !.reconnectAttempts = 0]

\* eventSource.onerror
onerror(s) ==
    LET q == [s EXCEPT !.isConnected = FALSE, !.eventSource = "null"]
        delay == Min(s.reconnectInterval * Pow2(s.reconnectAttempts), MAX_RECONNECT_DELAY)
    IN  IF MayReconnect(s)
        THEN [q EXCEPT !.set = @ + 1, !.reconnectTimeout = s.set + 1,
                       !.timers = @ \cup {[id |-> s.set + 1, delay |-> delay]}]
        ELSE q

\* the callback of the reconnect timer t
reconnect(s, t) ==
    connect([s EXCEPT !.timers = @ \ {t}, !.fired = @ + 1,
                      !.reconnectAttempts = @ + 1])

InitStream ==
    /\ now = Epoch
    /\ call = NoCall
    /\ env = NoSecret
    /\ request = NoRequest
    /\ response = NoResponse
    /\ processed = NoEvent
    /\ time = 0
    /\ poll = NoPoll
    /\ shop = NoShop
    /\ sdk = NoSdkCall
    /\ http = NoHttp
    /\ polls = NoPolls
    /\ stream = NoStream

\* the caller constructs the stream
Construct ==
    /\ stream.pc = "none"
    /\ \E reconnectInterval \in ReconnectIntervals, unlimited \in BOOLEAN,
          maxReconnectAttempts \in MaxAttemptsGiven, browser \in BOOLEAN :
          /\ unlimited => maxReconnectAttempts = 0
          /\ stream' = new_GatewayEventSource(reconnectInterval, unlimited,
                                              maxReconnectAttempts, browser)
    /\ UNCHANGED <<now, call, hookVars, pollVars, shop, sdk, http, polls>>

\* the caller calls connect()
ConnectCall ==
    /\ stream.pc = "constructed"
    /\ stream.sources < MaxSources
    /\ stream' = [connect(stream) EXCEPT !.disconnected = FALSE]
    /\ UNCHANGED <<now, call, hookVars, pollVars, shop, sdk, http, polls>>

\* the caller calls disconnect()
DisconnectCall ==
    /\ stream.pc = "constructed"
    /\ stream' = [disconnect(stream) EXCEPT !.disconnected = TRUE]
    /\ UNCHANGED <<now, call, hookVars, pollVars, shop, sdk, http, polls>>

\* the connection is established
OpenEvent ==
    /\ stream.eventSource = "connecting"
    /\ stream' = onopen(stream)
    /\ UNCHANGED <<now, call, hookVars, pollVars, shop, sdk, http, polls>>

\* the connection fails or is lost
ErrorEvent ==
    /\ stream.eventSource \in {"connecting", "open"}
    /\ stream' = onerror(stream)
    /\ UNCHANGED <<now, call, hookVars, pollVars, shop, sdk, http, polls>>

\* a pending reconnect timer fires
ReconnectTimerFires ==
    /\ stream.sources < MaxSources
    /\ \E t \in stream.timers : stream' = reconnect(stream, t)
    /\ UNCHANGED <<now, call, hookVars, pollVars, shop, sdk, http, polls>>

NextStream ==
    \/ Construct
    \/ ConnectCall
    \/ DisconnectCall
    \/ OpenEvent
    \/ ErrorEvent
    \/ ReconnectTimerFires

SpecStream == InitStream /\ [][NextStream]_vars

\* C26: under every interleaving of connect(), disconnect(), open events,
\* error events and reconnect timers, reconnectAttempts never exceeds
\* maxReconnectAttempts (and an open event resets it to 0).
C26_AttemptsNeverExceedMax ==
    /\ (stream.pc = "constructed" /\ ~stream.unlimited)
          => stream.reconnectAttempts <= stream.maxReconnectAttempts
    /\ stream.eventSource = "open" => stream.reconnectAttempts = 0

\* C30: after disconnect() has returned and until the caller calls connect()
\* again, no EventSource is constructed and no reconnect timer fires,
\* whatever connect() calls, error events and pending timers came before.
C30_DisconnectIsFinal ==
    [][(stream.disconnected /\ stream'.disconnected)
          => (stream'.sources = stream.sources /\ stream'.fired = stream.fired)]_vars

(***************************************************************************)
(* The poller with a caller's onStatus that may throw.                     *)
(***************************************************************************)
\* what a throwing onStatus throws
CallbackErrors == {"Error: onStatus failed"}

\* the status request is answered and options.onStatus throws
OnStatusThrows ==
    /\ poll.pc = "checking"
    /\ poll.hasOnStatus
    /\ poll.checks < MaxChecks
    /\ \E status \in Statuses(poll.api), error \in CallbackErrors, latency \in Latencies :
          /\ time' = time + latency
          /\ poll' = check_threw(poll, status, error, time')
    /\ UNCHANGED <<now, call, hookVars, shop, sdk, streamVars>>

NextPollThrowing ==
    \/ PollCall
    \/ StatusReturns
    \/ StatusFails
    \/ OnStatusThrows
    \/ TimerFires

SpecPollThrowing == InitPoll /\ [][NextPollThrowing]_vars

\* the promise of the poll has been resolved or rejected
Settled(p) == p.result # NoSnapshot \/ p.error # "undefined"

\* C27: a poll settles exactly once: its promise is never both resolved and
\* rejected, and once it is settled no check is in flight, no timer of the
\* poll is pending and nothing of the poll changes any more: no further
\* check, no further wait, no further call of onStatus, no second settlement.
C27_SettlesExactlyOnce ==
    /\ [](Settled(poll)
            => /\ poll.pc \in {"resolved", "rejected"}
               /\ ~(poll.result # NoSnapshot /\ poll.error # "undefined"))
    /\ [][Settled(poll) => poll' = poll]_vars

\* a poll has settled after several checks, one of them with a throwing
\* onStatus, and its timers
C27_Witness ==
    /\ Settled(poll)
    /\ poll.checks >= 3
    /\ poll.threw # {}
    /\ Len(poll.waits) >= 2

\* C28: a terminal status takes precedence over the deadline: when the last
\* status returned is terminal and more than timeoutMs has elapsed, the
\* poll is resolved with that status; the poll is rejected with the timeout
\* error only after a non-terminal result.
C28_TerminalBeatsDeadline ==
    LET n == Len(poll.returned)
    IN  /\ (n > 0 /\ poll.returned[n] \in SpecTerminal
               /\ time - poll.start > poll.timeout)
              => (poll.pc = "resolved" /\ poll.result.status = poll.returned[n])
        /\ (poll.pc = "rejected" /\ poll.error = TimeoutError(poll.api))
              => (n > 0 /\ poll.returned[n] \in SpecNonTerminal)

\* C29: an exception thrown by onStatus does not prevent the terminal
\* result: when onStatus throws on the check that returned a terminal
\* status, the poll is resolved with that snapshot and that check is its last.
C29_CallbackErrorKeepsResult ==
    \A k \in 1..Len(poll.onStatus) :
        LET snapshot == poll.onStatus[k]
        IN  (snapshot.check \in poll.threw /\ snapshot.status \in TerminalStatuses(poll.api))
                => /\ poll.pc = "resolved"
                   /\ poll.result = snapshot
                   /\ poll.checks = snapshot.check

====
